---- MODULE Spec2Model ----
(***************************************************************************)
(* A model of the luir interpreter: the lexer (src/src/lex.rs), the        *)
(* recursive-descent parser (src/src/parser.rs) and the tree-walking       *)
(* evaluator (src/src/ast.rs) over the scope stack of src/src/vm.rs.       *)
(*                                                                         *)
(* Seven specifications share the variables:                               *)
(*   SpecLex    Lexer::tokenize, one action per arm of its scanning loop,  *)
(*              on every character sequence up to MaxSrcLen;               *)
(*   SpecParse  the parser's entry points applied to bounded token         *)
(*              vectors;                                                   *)
(*   SpecVM     VirtualMachine::execute running statements one step at a   *)
(*              time on the scope stack;                                   *)
(*   SpecFn     SpecVM extended with functions, return and repeat-until,   *)
(*              whose evaluator is not part of src/src/ast.rs;             *)
(*   SpecFor    the numeric for loops that parse_for_loop builds, with a   *)
(*              body that prints, fails or overwrites the iterator;        *)
(*   SpecExpr   calls and binary expressions over operands of every        *)
(*              variant, executed as expression statements;                *)
(*   SpecMain   main on a source text: tokenize, parse, then execute.      *)
(* f64 numbers are modelled by bounded exact ratios.                       *)
(***************************************************************************)
EXTENDS Integers, Sequences, FiniteSets, TLC

VARIABLES
    \* Lexer (lex.rs:52-55) and the local state of tokenize (lex.rs:116-222)
    current,        \* Lexer.current : Option<char>, <<>> is None, <<c>> is Some(c)
    input,          \* Lexer.input : the characters after current
    tokens,         \* tokenize's local vector
    lex_result,     \* None while scanning, then Some(Ok(tokens)) or Some(Err(msg))
    lex_pc          \* "off", "start" (before the first consume_whitespace), "loop", "done"

lexVars == <<current, input, tokens, lex_result, lex_pc>>

VARIABLES
    \* a run of the parser
    p_tokens,       \* the token vector the parser is given
    p_called,       \* "none", then the entry point applied: "parse" or "parse_expression"
    p_result        \* None, then Some(result of the entry point)

parserVars == <<p_tokens, p_called, p_result>>

VARIABLES
    \* VirtualMachine (vm.rs:8-10) and a run of VirtualMachine::execute
    scopes_stack,   \* VirtualMachine.scopes_stack, the global frame first
    activations,    \* the calls of Statement::execute in progress, outermost first
    stdout,         \* what print has written since the outermost statement began
    vm_error,       \* None, then Some(msg) once a statement has returned Err(msg)
    ret             \* Void, or the value of a return statement on its way to the call

vmVars == <<scopes_stack, activations, stdout, vm_error, ret>>

vars == <<lexVars, parserVars, vmVars>>

-----------------------------------------------------------------------------
(* Bounds *)

MaxSrcLen == 4      \* longest source text given to the lexer
MaxTokens == 4      \* longest arbitrary token vector given to the parser
MaxChain == 2       \* most binary operators in an operator chain given to the parser
MaxArgs == 2        \* most arguments of a call given to the parser
MaxNumber == 2      \* largest magnitude of a number the virtual machine stores
MaxScopes == 3      \* most frames on the scope stack from the frame a function call began on
MaxOutput == 7      \* most writes of print during one outermost statement
MaxIterator == 4    \* largest magnitude a for loop's update gives its iterator
MaxStatements == 3  \* most statements of a source text given to main

-----------------------------------------------------------------------------
(* Option and Result *)

None == <<>>
Some(x) == <<x>>
Ok(x) == [ok |-> TRUE, val |-> x]
Err(msg) == [ok |-> FALSE, err |-> msg]

-----------------------------------------------------------------------------
(* f64.  A number is the ratio n/d in lowest terms with d > 0; d = 0 is    *)
(* the outcome of a division by zero (an infinity or NaN), which the       *)
(* model's bounds exclude.  Arithmetic is exact, as f64 is on the small    *)
(* values the model uses.                                                  *)

Abs(n) == IF n < 0 THEN -n ELSE n

RECURSIVE GCD(_, _)
GCD(a, b) == IF b = 0 THEN a ELSE GCD(b, a % b)

Ratio(n, d) ==
    IF d = 0 THEN [n |-> IF n > 0 THEN 1 ELSE IF n < 0 THEN -1 ELSE 0, d |-> 0]
    ELSE LET g == GCD(Abs(n), Abs(d))
             s == IF d < 0 THEN -1 ELSE 1
         IN  [n |-> s * (n \div g), d |-> s * (d \div g)]

F64(n) == [n |-> n, d |-> 1]

f64_add(a, b) == Ratio(a.n * b.d + b.n * a.d, a.d * b.d)
f64_sub(a, b) == Ratio(a.n * b.d - b.n * a.d, a.d * b.d)
f64_mul(a, b) == Ratio(a.n * b.n, a.d * b.d)
f64_div(a, b) == Ratio(a.n * b.d, a.d * b.n)
f64_lt(a, b) == a.n * b.d < b.n * a.d
f64_le(a, b) == a.n * b.d <= b.n * a.d
f64_eq(a, b) == a.n * b.d = b.n * a.d

RECURSIVE Pow10(_)
Pow10(k) == IF k = 0 THEN 1 ELSE 10 * Pow10(k - 1)

-----------------------------------------------------------------------------
(* Tokens, lex.rs:3-50.  Function, Return, Repeat, Until, LeftBracket and   *)
(* RightBracket are further kinds that parser.rs matches on.  A payload    *)
(* has a field name of its own type; the payload of a string literal is    *)
(* its sequence of characters, a name is a string.                         *)

Tok(kind) == [k |-> kind]
Identifier(name) == [k |-> "Identifier", name |-> name]
LiteralNumber(n) == [k |-> "Literal", lt |-> "Number", num |-> n]
LiteralBoolean(b) == [k |-> "Literal", lt |-> "Boolean", bool |-> b]
LiteralString(s) == [k |-> "Literal", lt |-> "String", str |-> s]
LiteralNil == [k |-> "Literal", lt |-> "Nil"]

-----------------------------------------------------------------------------
(* Characters.  A character is a one-character string; the source text is  *)
(* a sequence of characters.                                               *)

Digits == {"0", "1", "2", "3", "4", "5", "6", "7", "8", "9"}
Letters == {"a", "b", "d", "e", "f", "i", "l", "n", "o", "p", "r", "s", "t", "x"}
Whitespace == {" ", "\n", "\t"}
Punctuation == {"+", "-", "*", "/", "(", ")", "<", ">", "=", "~", ".", ",",
                "\"", "_", "#", "{", "}"}
Chars == Digits \cup Letters \cup Whitespace \cup Punctuation

is_whitespace(c) == c \in Whitespace
is_ascii_digit(c) == c \in Digits
is_ascii_alphabetic(c) == c \in Letters
is_alphanumeric(c) == c \in Letters \cup Digits

\* the characters the lexer is run on
LexAlphabet == {"a", "1", " ", "\n", "=", "<", ">", "~", ".", "-", "\"", "#"}

\* the sequences over S of length at most n
SeqsUpTo(S, n) == UNION {[1..len -> S] : len \in 0..n}

RECURSIVE Concat(_)
\* the String made of a sequence of characters
Concat(cs) == IF cs = <<>> THEN "" ELSE Head(cs) \o Concat(Tail(cs))

-----------------------------------------------------------------------------
(* Lexer helpers.  Each takes the cursor <<current, input>> and returns    *)
(* the new cursor in fields cur, inp.                                      *)

\* Lexer::advance, lex.rs:66-68 : current = input.next()
advance(cur, inp) ==
    IF inp = <<>> THEN [cur |-> None, inp |-> <<>>]
    ELSE [cur |-> Some(Head(inp)), inp |-> Tail(inp)]

\* self.input.clone().next(), lex.rs:146 : the character after current
peek_input(inp) == IF inp = <<>> THEN None ELSE Some(Head(inp))

RECURSIVE consume_while(_, _, _)
\* Lexer::consume_while, lex.rs:70-84 ; accept is the set where test holds
consume_while(accept, cur, inp) ==
    IF cur # None /\ cur[1] \in accept
    THEN LET a == advance(cur, inp)
             r == consume_while(accept, a.cur, a.inp)
         IN  [result |-> <<cur[1]>> \o r.result, cur |-> r.cur, inp |-> r.inp]
    ELSE [result |-> <<>>, cur |-> cur, inp |-> inp]

\* Lexer::consume_whitespace, lex.rs:86-88
consume_whitespace(cur, inp) == consume_while(Whitespace, cur, inp)

\* the keyword table of consume_identifier_or_keyword, lex.rs:92-106
keyword_or_identifier(id) ==
    CASE id = "local" -> Tok("Local")
      [] id = "nil" -> LiteralNil
      [] id = "true" -> LiteralBoolean(TRUE)
      [] id = "false" -> LiteralBoolean(FALSE)
      [] id = "if" -> Tok("If")
      [] id = "then" -> Tok("Then")
      [] id = "else" -> Tok("Else")
      [] id = "elseif" -> Tok("ElseIf")
      [] id = "end" -> Tok("End")
      [] id = "while" -> Tok("While")
      [] id = "for" -> Tok("For")
      [] id = "do" -> Tok("Do")
      [] OTHER -> Identifier(id)

\* Lexer::consume_identifier_or_keyword, lex.rs:90-107
consume_identifier_or_keyword(cur, inp) ==
    LET r == consume_while(Letters \cup Digits \cup {"_"}, cur, inp)
    IN  [token |-> keyword_or_identifier(Concat(r.result)), cur |-> r.cur, inp |-> r.inp]

DigitValue(c) ==
    CASE c = "0" -> 0 [] c = "1" -> 1 [] c = "2" -> 2 [] c = "3" -> 3 [] c = "4" -> 4
      [] c = "5" -> 5 [] c = "6" -> 6 [] c = "7" -> 7 [] c = "8" -> 8 [] c = "9" -> 9

RECURSIVE DecimalValue(_, _)
\* the value of a run of digits, most significant first, after acc
DecimalValue(acc, ds) ==
    IF ds = <<>> THEN acc ELSE DecimalValue(10 * acc + DigitValue(Head(ds)), Tail(ds))

\* str::parse::<f64> on a run of digits and dots that starts with a digit
\* (lex.rs:112): an error when there is more than one dot, otherwise the
\* value of the decimal
parse_f64(num_str) ==
    LET dots == {i \in 1..Len(num_str) : num_str[i] = "."}
        digits == SelectSeq(num_str, is_ascii_digit)
    IN  IF Cardinality(dots) > 1 THEN Err("Number conversion error")
        ELSE IF dots = {} THEN Ok(F64(DecimalValue(0, digits)))
        ELSE LET d == CHOOSE i \in dots : TRUE
             IN  Ok(Ratio(DecimalValue(0, digits), Pow10(Len(num_str) - d)))

\* Lexer::consume_number, lex.rs:109-114
consume_number(cur, inp) ==
    LET r == consume_while(Digits \cup {"."}, cur, inp)
        p == parse_f64(r.result)
    IN  [token |-> IF p.ok THEN Ok(LiteralNumber(p.val)) ELSE p, cur |-> r.cur, inp |-> r.inp]

-----------------------------------------------------------------------------
(* Lexer::tokenize, lex.rs:116-222.  One action per arm of the match in    *)
(* the scanning loop; an arm that returns an error ends the scan with no   *)
(* token vector.                                                           *)

\* Lexer::new, lex.rs:58-64
LexerNew(src) ==
    /\ current = (IF src = <<>> THEN None ELSE Some(Head(src)))
    /\ input = (IF src = <<>> THEN <<>> ELSE Tail(src))

AtChar(cs) == lex_pc = "loop" /\ current # None /\ current[1] \in cs

\* push the token and continue the loop at the cursor a
Emit(token, a) ==
    /\ tokens' = Append(tokens, token)
    /\ current' = a.cur
    /\ input' = a.inp
    /\ UNCHANGED <<lex_result, lex_pc, parserVars, vmVars>>

\* return Err(msg) out of tokenize
Fail(msg, a) ==
    /\ lex_result' = Some(Err(msg))
    /\ lex_pc' = "done"
    /\ current' = a.cur
    /\ input' = a.inp
    /\ UNCHANGED <<tokens, parserVars, vmVars>>

\* lex.rs:117-118 : the vector is created and leading whitespace skipped
TokenizeStart ==
    /\ lex_pc = "start"
    /\ LET r == consume_whitespace(current, input)
       IN  /\ current' = r.cur
           /\ input' = r.inp
    /\ lex_pc' = "loop"
    /\ UNCHANGED <<tokens, lex_result, parserVars, vmVars>>

SingleCharToken(c) ==
    CASE c = "+" -> Tok("Plus")
      [] c = "-" -> Tok("Minus")
      [] c = "*" -> Tok("Asterisk")
      [] c = "/" -> Tok("Slash")
      [] c = "(" -> Tok("LeftParen")
      [] c = ")" -> Tok("RightParen")
      [] c = "," -> Tok("Comma")

\* LexSingle without the advance
LexSingle_NoAdvance ==
    /\ AtChar({"+", "-", "*", "/", "(", ")", ","})
    /\ Emit(SingleCharToken(current[1]), [cur |-> current, inp |-> input])

\* lex.rs:121-144 and 198-201 : + - * / ( ) ,
LexSingle ==
    /\ AtChar({"+", "-", "*", "/", "(", ")", ","})
    /\ Emit(SingleCharToken(current[1]), advance(current, input))

\* TwoCharArm without the advance over the second character
TwoCharArm_OneAdvance(second, token2, token1) ==
    IF peek_input(input) = Some(second)
    THEN Emit(token2, advance(current, input))
    ELSE Emit(token1, advance(current, input))

\* the shape shared by the arms for < > = and . : one token when the next
\* character is second (both consumed), another when it is not
TwoCharArm(second, token2, token1) ==
    IF peek_input(input) = Some(second)
    THEN LET a == advance(current, input)
         IN  Emit(token2, advance(a.cur, a.inp))
    ELSE Emit(token1, advance(current, input))

\* lex.rs:145-154
LexLess ==
    /\ AtChar({"<"})
    /\ TwoCharArm("=", Tok("LessThanOrEqual"), Tok("LessThan"))

\* lex.rs:155-164
LexGreater ==
    /\ AtChar({">"})
    /\ TwoCharArm("=", Tok("GreaterThanOrEqual"), Tok("GreaterThan"))

\* lex.rs:165-174
LexAssign ==
    /\ AtChar({"="})
    /\ TwoCharArm("=", Tok("Equal"), Tok("Assigment"))

\* lex.rs:176-185
LexTilde ==
    /\ AtChar({"~"})
    /\ IF peek_input(input) = Some("=")
       THEN LET a == advance(current, input)
            IN  Emit(Tok("NotEqual"), advance(a.cur, a.inp))
       ELSE Fail("Unexpected char after ~ expected =", [cur |-> current, inp |-> input])

\* lex.rs:187-196
LexDot ==
    /\ AtChar({"."})
    /\ TwoCharArm(".", Tok("Concatanation"), Tok("Dot"))

\* lex.rs:203-205
LexWhitespace ==
    /\ AtChar(Whitespace)
    /\ LET r == consume_whitespace(current, input)
       IN  /\ current' = r.cur
           /\ input' = r.inp
    /\ UNCHANGED <<tokens, lex_result, lex_pc, parserVars, vmVars>>

\* lex.rs:206-208
LexNumber ==
    /\ AtChar(Digits)
    /\ LET r == consume_number(current, input)
       IN  IF r.token.ok THEN Emit(r.token.val, r) ELSE Fail(r.token.err, r)

\* lex.rs:209-211
LexIdentifier ==
    /\ AtChar(Letters)
    /\ LET r == consume_identifier_or_keyword(current, input)
       IN  Emit(r.token, r)

\* lex.rs:212-217
LexString ==
    /\ AtChar({"\""})
    /\ LET a == advance(current, input)
           r == consume_while(Chars \ {"\""}, a.cur, a.inp)
       IN  Emit(LiteralString(r.result), advance(r.cur, r.inp))

\* lex.rs:218
LexUnexpected ==
    /\ AtChar(Chars \ ({"+", "-", "*", "/", "(", ")", ",", "<", ">", "=", "~", ".", "\""}
                       \cup Whitespace \cup Digits \cup Letters))
    /\ Fail("Unexpected character", [cur |-> current, inp |-> input])

\* lex.rs:119 and 221 : the loop ends when current is None
TokenizeEnd ==
    /\ lex_pc = "loop"
    /\ current = None
    /\ lex_result' = Some(Ok(tokens))
    /\ lex_pc' = "done"
    /\ UNCHANGED <<current, input, tokens, parserVars, vmVars>>

\* the parser's variables while the parser is not run
ParserOff ==
    /\ p_tokens = <<>>
    /\ p_called = "none"
    /\ p_result = None

\* the virtual machine's variables while no virtual machine exists
VMOff ==
    /\ scopes_stack = <<>>
    /\ activations = <<>>
    /\ stdout = <<>>
    /\ vm_error = <<>>
    /\ ret = [t |-> "Void"]

InitLex ==
    /\ \E len \in 0..MaxSrcLen : \E src \in [1..len -> LexAlphabet] : LexerNew(src)
    /\ tokens = <<>>
    /\ lex_result = None
    /\ lex_pc = "start"
    /\ ParserOff
    /\ VMOff

NextLex ==
    \/ TokenizeStart
    \/ LexSingle
    \/ LexLess
    \/ LexGreater
    \/ LexAssign
    \/ LexTilde
    \/ LexDot
    \/ LexWhitespace
    \/ LexNumber
    \/ LexIdentifier
    \/ LexString
    \/ LexUnexpected
    \/ TokenizeEnd

SpecLex == InitLex /\ [][NextLex]_vars

-----------------------------------------------------------------------------
(* The syntax tree, ast.rs:19-28 and 99-122.  FunctionDeclaration,         *)
(* ReturnStatement, RepeatUntilLoop and TableLiteral are the variants      *)
(* parser.rs builds (parser.rs:402, 417, 432, 464).                        *)

NumberLiteral(n) == [e |-> "NumberLiteral", num |-> n]
BooleanLiteral(b) == [e |-> "BooleanLiteral", bool |-> b]
StringLiteral(str) == [e |-> "StringLiteral", str |-> str]
NilLiteral == [e |-> "NilLiteral"]
IdentifierExpression(name) == [e |-> "IdentifierExpression", name |-> name]
BinaryExpression(lhs, op, rhs) == [e |-> "BinaryExpression", lhs |-> lhs, op |-> op, rhs |-> rhs]
FunctionCall(name, args) == [e |-> "FunctionCall", name |-> name, args |-> args]
\* the BTreeMap of a table literal, as the sequence of its entries in key order
TableLiteral(entries) == [e |-> "TableLiteral", entries |-> entries]

LocalVariableDeclaration(name, expr) ==
    [s |-> "LocalVariableDeclaration", name |-> name, expr |-> expr]
AssigmentStatement(name, expr) == [s |-> "AssigmentStatement", name |-> name, expr |-> expr]
WhileLoop(cond, block) == [s |-> "WhileLoop", loop_condition |-> cond, code_block |-> block]
ForLoop(iter, start, end, step, block) ==
    [s |-> "ForLoop", iterator_identifier |-> iter, starting_value |-> start,
     ending_value |-> end, step_value |-> step, code_block |-> block]
\* elseifs is a sequence of <<condition, block>>, else_block an Option
IfStatement(cond, block, elseifs, else_block) ==
    [s |-> "IfStatement", basic_condition |-> cond, code_block |-> block,
     elseif_statements |-> elseifs, else_block |-> else_block]
ExpressionStatement(expr) == [s |-> "ExpressionStatement", expr |-> expr]
FunctionDeclaration(name, arguments, body) ==
    [s |-> "FunctionDeclaration", function_name |-> name,
     function_arguments |-> arguments, function_body |-> body]
ReturnStatement(expr) == [s |-> "ReturnStatement", expr |-> expr]
RepeatUntilLoop(block, cond) ==
    [s |-> "RepeatUntilLoop", code_block |-> block, loop_condition |-> cond]

-----------------------------------------------------------------------------
(* Parser, parser.rs.  The token cursor (a Peekable iterator) is the       *)
(* sequence of the tokens not yet consumed.  Every parsing function        *)
(* returns, with its result, the cursor it leaves behind (.rest), also     *)
(* when it fails: the argument loops of parser.rs:310 and 386 continue     *)
(* from the cursor of a failed attempt.                                    *)

POk(val, rest) == [ok |-> TRUE, val |-> val, rest |-> rest]
PErr(msg, rest) == [ok |-> FALSE, err |-> msg, rest |-> rest]

Peek(toks) == IF toks = <<>> THEN None ELSE Some(Head(toks))
\* the cursor after tokens.next()
Next1(toks) == IF toks = <<>> THEN <<>> ELSE Tail(toks)

\* BandOperators with the additive and the multiplicative lists exchanged
BandOperators_Exchanged(level) ==
    CASE level = 1 -> {"NotEqual", "Equal", "LessThan", "LessThanOrEqual",
                       "GreaterThan", "GreaterThanOrEqual"}
      [] level = 2 -> {"Asterisk", "Slash"}
      [] level = 3 -> {"Plus", "Minus"}

\* the operator lists of the three macro calls, parser.rs:242-249, 261, 273
BandOperators(level) ==
    CASE level = 1 -> {"NotEqual", "Equal", "LessThan", "LessThanOrEqual",
                       "GreaterThan", "GreaterThanOrEqual"}
      [] level = 2 -> {"Plus", "Minus"}
      [] level = 3 -> {"Asterisk", "Slash"}

\* $op_str of each $op, parser.rs:243-248, 261, 273
OperatorString(kind) ==
    CASE kind = "NotEqual" -> "~="
      [] kind = "Equal" -> "=="
      [] kind = "LessThan" -> "<"
      [] kind = "LessThanOrEqual" -> "<="
      [] kind = "GreaterThan" -> ">"
      [] kind = "GreaterThanOrEqual" -> ">="
      [] kind = "Plus" -> "+"
      [] kind = "Minus" -> "-"
      [] kind = "Asterisk" -> "*"
      [] kind = "Slash" -> "/"

\* Parser::expect, parser.rs:345-356 : the token is consumed either way
expect(toks, expected) ==
    IF Peek(toks) = Some(expected) THEN POk(TRUE, Next1(toks))
    ELSE PErr("Expected token", Next1(toks))

\* Parser::parse_identifier, parser.rs:223-232
parse_identifier(toks) ==
    IF toks # <<>> /\ Head(toks).k = "Identifier" THEN POk(Head(toks).name, Tail(toks))
    ELSE PErr("Expected identifier", Next1(toks))

RECURSIVE parse_expression(_), parse_2_level_expression(_), parse_3_level_expression(_),
          parse_4_level_expression(_), next_level_expression(_, _),
          create_binary_expression(_, _), binary_expression_loop(_, _, _),
          parse_call_arguments(_, _), parse_table(_), parse_table_loop(_, _, _)

\* $parse_next_level_expression of each macro call, parser.rs:241, 260, 272
next_level_expression(level, toks) ==
    CASE level = 1 -> parse_2_level_expression(toks)
      [] level = 2 -> parse_3_level_expression(toks)
      [] level = 3 -> parse_4_level_expression(toks)

\* binary_expression_loop with the rest of the chain parsed as the right
\* operand
binary_expression_loop_RightNested(level, left, toks) ==
    IF toks # <<>> /\ Head(toks).k \in BandOperators(level)
    THEN LET right == create_binary_expression(level, Tail(toks))
         IN  IF right.ok
             THEN POk(BinaryExpression(left, OperatorString(Head(toks).k), right.val),
                      right.rest)
             ELSE right
    ELSE POk(left, toks)

\* the while loop of create_binary_expression!, parser.rs:16-25
binary_expression_loop(level, left, toks) ==
    IF toks # <<>> /\ Head(toks).k \in BandOperators(level)
    THEN LET right == next_level_expression(level, Tail(toks))
         IN  IF right.ok
             THEN binary_expression_loop(level,
                      BinaryExpression(left, OperatorString(Head(toks).k), right.val),
                      right.rest)
             ELSE right
    ELSE POk(left, toks)

\* create_binary_expression!, parser.rs:12-29
create_binary_expression(level, toks) ==
    LET left == next_level_expression(level, toks)
    IN  IF left.ok THEN binary_expression_loop(level, left.val, left.rest) ELSE left

\* Parser::parse_expression, parser.rs:234-251
parse_expression(toks) == create_binary_expression(1, toks)

\* Parser::parse_2_level_expression, parser.rs:253-263
parse_2_level_expression(toks) == create_binary_expression(2, toks)

\* Parser::parse_3_level_expression, parser.rs:265-275
parse_3_level_expression(toks) == create_binary_expression(3, toks)

\* the argument loop of a call, parser.rs:308-318 : it ends at the first
\* expression that fails to parse, with the cursor that attempt left
parse_call_arguments(arguments, toks) ==
    LET expression == parse_expression(toks)
    IN  IF expression.ok
        THEN IF Peek(expression.rest) = Some(Tok("Comma"))
             THEN parse_call_arguments(Append(arguments, expression.val),
                                       Tail(expression.rest))
             ELSE POk(Append(arguments, expression.val), expression.rest)
        ELSE POk(arguments, expression.rest)

\* Parser::parse_4_level_expression, parser.rs:277-343
parse_4_level_expression(toks) ==
    IF toks = <<>> THEN PErr("Expected factor", toks)
    ELSE LET token == Head(toks)
             after == Tail(toks)
         IN  CASE token.k = "LeftParen" ->
                    LET expression == parse_expression(after)
                    IN  IF ~expression.ok THEN expression
                        ELSE IF Peek(expression.rest) = Some(Tok("RightParen"))
                        THEN POk(expression.val, Tail(expression.rest))
                        ELSE PErr("Expected ')'", Next1(expression.rest))
               [] token.k = "LeftBracket" ->
                    LET table_literal == parse_table(after)
                    IN  IF ~table_literal.ok THEN table_literal
                        ELSE IF Peek(table_literal.rest) = Some(Tok("RightBracket"))
                        THEN POk(table_literal.val, Tail(table_literal.rest))
                        ELSE PErr("Expected '}'", Next1(table_literal.rest))
               [] token.k = "Literal" /\ token.lt = "Number" -> POk(NumberLiteral(token.num), after)
               [] token.k = "Identifier" ->
                    IF Peek(after) = Some(Tok("LeftParen"))
                    THEN LET arguments == parse_call_arguments(<<>>, Tail(after))
                         IN  IF Peek(arguments.rest) # Some(Tok("RightParen"))
                             THEN PErr("Expected ')'", arguments.rest)
                             ELSE POk(FunctionCall(token.name, arguments.val),
                                      Tail(arguments.rest))
                    ELSE POk(IdentifierExpression(token.name), after)
               [] token.k = "Literal" /\ token.lt = "Boolean" ->
                    POk(BooleanLiteral(token.bool), after)
               [] token.k = "Literal" /\ token.lt = "Nil" -> POk(NilLiteral, after)
               [] token.k = "Literal" /\ token.lt = "String" ->
                    POk(StringLiteral(token.str), after)
               [] OTHER -> PErr("Unexpected token", after)

\* the while loop of parse_table, parser.rs:447-462
parse_table_loop(table_structure, in_table_index, toks) ==
    IF toks = <<>> THEN POk(TableLiteral(table_structure), toks)
    ELSE CASE Head(toks).k = "RightBracket" -> POk(TableLiteral(table_structure), toks)
           [] Head(toks).k = "Comma" ->
                parse_table_loop(table_structure, in_table_index, Tail(toks))
           [] OTHER ->
                LET element == parse_expression(toks)
                IN  IF ~element.ok THEN element
                    ELSE parse_table_loop(
                             Append(table_structure,
                                    <<NumberLiteral(F64(in_table_index)), element.val>>),
                             in_table_index + 1, element.rest)

\* Parser::parse_table, parser.rs:438-465 : it starts with a tokens.next()
parse_table(toks) == parse_table_loop(<<>>, 1, Next1(toks))

\* the ? operator: continue with the value and the cursor of a success,
\* return a failure as it is
Try(result, Continue(_, _)) ==
    IF result.ok THEN Continue(result.val, result.rest) ELSE result

\* Parser::parse_local_variable_declaration, parser.rs:205-221
parse_local_variable_declaration(toks) ==
    Try(parse_identifier(Next1(toks)), LAMBDA local_variable_identifier, t1 :
    Try(expect(t1, Tok("Assigment")), LAMBDA u, t2 :
    Try(parse_expression(t2), LAMBDA expression, t3 :
    POk(LocalVariableDeclaration(local_variable_identifier, expression), t3))))

\* Parser::parse_assigment_statement, parser.rs:358-372
parse_assigment_statement(toks) ==
    Try(parse_identifier(toks), LAMBDA identifier, t1 :
    Try(expect(t1, Tok("Assigment")), LAMBDA u, t2 :
    Try(parse_expression(t2), LAMBDA expression, t3 :
    POk(AssigmentStatement(identifier, expression), t3))))

\* Parser::parse_return_statement, parser.rs:409-418
parse_return_statement(toks) ==
    Try(parse_expression(Next1(toks)), LAMBDA expression, t1 :
    POk(ReturnStatement(expression), t1))

\* the parameter loop of parse_function_declaration, parser.rs:386-394
RECURSIVE parse_function_arguments(_, _)
parse_function_arguments(function_arguments, toks) ==
    LET identifier == parse_identifier(toks)
    IN  IF identifier.ok
        THEN IF Peek(identifier.rest) = Some(Tok("Comma"))
             THEN parse_function_arguments(Append(function_arguments, identifier.val),
                                           Tail(identifier.rest))
             ELSE POk(Append(function_arguments, identifier.val), identifier.rest)
        ELSE POk(function_arguments, identifier.rest)

RECURSIVE parse_single_statement(_), parse_block_until(_, _), parse_block_loop(_, _, _),
          parse_while_loop(_), parse_for_loop(_), parse_if_statement(_),
          parse_elseif_statements(_, _), parse_function_declaration(_),
          parse_repeat_statement(_)

\* Parser::parse_single_statement, parser.rs:51-77
parse_single_statement(toks) ==
    IF toks = <<>> THEN PErr("Unexpected top-level token", toks)
    ELSE CASE Head(toks).k = "Local" -> parse_local_variable_declaration(toks)
           [] Head(toks).k = "Identifier" ->
                IF Peek(Tail(toks)) = Some(Tok("Assigment"))
                THEN parse_assigment_statement(toks)
                ELSE Try(parse_expression(toks), LAMBDA expression, t1 :
                     POk(ExpressionStatement(expression), t1))
           [] Head(toks).k = "If" -> parse_if_statement(toks)
           [] Head(toks).k = "While" -> parse_while_loop(toks)
           [] Head(toks).k = "For" -> parse_for_loop(toks)
           [] Head(toks).k = "Function" -> parse_function_declaration(toks)
           [] Head(toks).k = "Return" -> parse_return_statement(toks)
           [] Head(toks).k = "Repeat" -> parse_repeat_statement(toks)
           [] OTHER -> PErr("Unexpected top-level token", toks)

\* the while loop of parse_block_until, parser.rs:193-200
parse_block_loop(statements, toks, end_tokens) ==
    IF toks = <<>> \/ Head(toks) \in end_tokens THEN POk(statements, toks)
    ELSE Try(parse_single_statement(toks), LAMBDA statement, t1 :
         parse_block_loop(Append(statements, statement), t1, end_tokens))

\* Parser::parse_block_until, parser.rs:186-203
parse_block_until(toks, end_tokens) == parse_block_loop(<<>>, toks, end_tokens)

\* Parser::parse_while_loop, parser.rs:79-97
parse_while_loop(toks) ==
    Try(parse_expression(Next1(toks)), LAMBDA loop_condition, t1 :
    Try(expect(t1, Tok("Do")), LAMBDA u, t2 :
    Try(parse_block_until(t2, {Tok("End")}), LAMBDA loop_block, t3 :
    Try(expect(t3, Tok("End")), LAMBDA w, t4 :
    POk(WhileLoop(loop_condition, loop_block), t4)))))

\* the optional step of parse_for_loop, parser.rs:114-119
parse_step_value(toks) ==
    IF Peek(toks) = Some(Tok("Comma")) THEN parse_expression(Tail(toks))
    ELSE POk(NumberLiteral(F64(1)), toks)

\* Parser::parse_for_loop, parser.rs:99-134
parse_for_loop(toks) ==
    Try(parse_identifier(Next1(toks)), LAMBDA loop_variable, t1 :
    Try(expect(t1, Tok("Assigment")), LAMBDA u, t2 :
    Try(parse_expression(t2), LAMBDA start_value, t3 :
    Try(expect(t3, Tok("Comma")), LAMBDA w, t4 :
    Try(parse_expression(t4), LAMBDA end_value, t5 :
    Try(parse_step_value(t5), LAMBDA step_value, t6 :
    Try(expect(t6, Tok("Do")), LAMBDA x, t7 :
    Try(parse_block_until(t7, {Tok("End")}), LAMBDA loop_block, t8 :
    Try(expect(t8, Tok("End")), LAMBDA y, t9 :
    POk(ForLoop(loop_variable, start_value, end_value, step_value, loop_block),
        t9))))))))))

IfBlockEnd == {Tok("End"), Tok("ElseIf"), Tok("Else")}

\* the elseif loop of parse_if_statement, parser.rs:153-166
parse_elseif_statements(elseif_statements, toks) ==
    IF Peek(toks) # Some(Tok("ElseIf")) THEN POk(elseif_statements, toks)
    ELSE Try(parse_expression(Tail(toks)), LAMBDA condition, t1 :
         Try(expect(t1, Tok("Then")), LAMBDA u, t2 :
         Try(parse_block_until(t2, IfBlockEnd), LAMBDA block, t3 :
         parse_elseif_statements(Append(elseif_statements, <<condition, block>>), t3))))

\* the else block of parse_if_statement, parser.rs:168-174
parse_else_block(toks) ==
    IF Peek(toks) = Some(Tok("Else"))
    THEN Try(parse_block_until(Tail(toks), {Tok("End")}), LAMBDA block, t1 :
         POk(Some(block), t1))
    ELSE POk(None, toks)

\* Parser::parse_if_statement, parser.rs:136-184
parse_if_statement(toks) ==
    Try(parse_expression(Next1(toks)), LAMBDA condition, t1 :
    Try(expect(t1, Tok("Then")), LAMBDA u, t2 :
    Try(parse_block_until(t2, IfBlockEnd), LAMBDA main_block, t3 :
    Try(parse_elseif_statements(<<>>, t3), LAMBDA elseif_statements, t4 :
    Try(parse_else_block(t4), LAMBDA else_block, t5 :
    Try(expect(t5, Tok("End")), LAMBDA w, t6 :
    POk(IfStatement(condition, main_block, elseif_statements, else_block), t6)))))))

\* Parser::parse_function_declaration, parser.rs:374-407
parse_function_declaration(toks) ==
    Try(parse_identifier(Next1(toks)), LAMBDA function_name, t1 :
    Try(expect(t1, Tok("LeftParen")), LAMBDA u, t2 :
    Try(parse_function_arguments(<<>>, t2), LAMBDA function_arguments, t3 :
    Try(expect(t3, Tok("RightParen")), LAMBDA w, t4 :
    Try(parse_block_until(t4, {Tok("End")}), LAMBDA function_body, t5 :
    Try(expect(t5, Tok("End")), LAMBDA x, t6 :
    POk(FunctionDeclaration(function_name, function_arguments, function_body),
        t6)))))))

\* Parser::parse_repeat_statement, parser.rs:420-436
parse_repeat_statement(toks) ==
    Try(parse_block_until(Next1(toks), {Tok("Until")}), LAMBDA code_block, t1 :
    Try(expect(t1, Tok("Until")), LAMBDA u, t2 :
    Try(parse_expression(t2), LAMBDA loop_condition, t3 :
    POk(RepeatUntilLoop(code_block, loop_condition), t3))))

RECURSIVE parse_loop(_, _)
\* the while loop of Parser::parse, parser.rs:44-46
parse_loop(statements, toks) ==
    IF toks = <<>> THEN POk(statements, toks)
    ELSE Try(parse_single_statement(toks), LAMBDA statement, t1 :
         parse_loop(Append(statements, statement), t1))

\* Parser::parse, parser.rs:38-49, after tokenize has returned toks
parse(toks) == parse_loop(<<>>, toks)

-----------------------------------------------------------------------------
(* Runtime values, ast.rs:3-12.  The payload of a String is its sequence   *)
(* of characters.                                                          *)

Number(n) == [t |-> "Number", num |-> n]
Boolean(b) == [t |-> "Boolean", bool |-> b]
String(str) == [t |-> "String", str |-> str]
Nil == [t |-> "Nil"]
NativeFunction(f) == [t |-> "NativeFunction", native |-> f]

\* a function of the program: its parameter names and its body
UserFn(params, body) == [t |-> "UserFn", params |-> params, body |-> body]
\* what a statement yields when it returns no value
Void == [t |-> "Void"]

\* EvalValue::is_true, ast.rs:14-16
is_true(value) == value = Nil \/ value = Boolean(TRUE)

\* the position of a variant in the enum, which derive(PartialOrd) orders by
VariantIndex(value) ==
    CASE value.t = "Number" -> 0
      [] value.t = "Boolean" -> 1
      [] value.t = "String" -> 2
      [] value.t = "Nil" -> 3
      [] OTHER -> 4

\* the code point of a character of the model's alphabet
CodePoint(c) ==
    CASE c = "\t" -> 9 [] c = "\n" -> 10 [] c = " " -> 32 [] c = "\"" -> 34 [] c = "#" -> 35
      [] c = "(" -> 40 [] c = ")" -> 41 [] c = "*" -> 42 [] c = "+" -> 43 [] c = "," -> 44
      [] c = "-" -> 45 [] c = "." -> 46 [] c = "/" -> 47
      [] c \in Digits -> 48 + DigitValue(c)
      [] c = "<" -> 60 [] c = "=" -> 61 [] c = ">" -> 62 [] c = "_" -> 95
      [] c = "a" -> 97 [] c = "b" -> 98 [] c = "d" -> 100 [] c = "e" -> 101 [] c = "f" -> 102
      [] c = "h" -> 104 [] c = "i" -> 105 [] c = "l" -> 108 [] c = "n" -> 110
      [] c = "o" -> 111 [] c = "p" -> 112 [] c = "r" -> 114 [] c = "s" -> 115 [] c = "t" -> 116 [] c = "x" -> 120
      [] c = "{" -> 123 [] c = "}" -> 125 [] c = "~" -> 126

RECURSIVE string_le(_, _)
\* String <= String : lexicographic by code point
string_le(a, b) ==
    IF a = <<>> THEN TRUE
    ELSE IF b = <<>> THEN FALSE
    ELSE IF Head(a) = Head(b) THEN string_le(Tail(a), Tail(b))
    ELSE CodePoint(Head(a)) < CodePoint(Head(b))

\* eval_value_le with < in place of <= on numbers
eval_value_le_Strict(a, b) ==
    IF VariantIndex(a) # VariantIndex(b) THEN VariantIndex(a) < VariantIndex(b)
    ELSE CASE a.t = "Number" -> f64_lt(a.num, b.num)
           [] a.t = "Boolean" -> (~a.bool) \/ b.bool
           [] a.t = "String" -> string_le(a.str, b.str)
           [] OTHER -> TRUE

\* EvalValue <= EvalValue by the derived PartialOrd, ast.rs:3 : values of
\* different variants compare by the order of the variants in the enum,
\* values of one variant by their payloads
eval_value_le(a, b) ==
    IF VariantIndex(a) # VariantIndex(b) THEN VariantIndex(a) < VariantIndex(b)
    ELSE CASE a.t = "Number" -> f64_le(a.num, b.num)
           [] a.t = "Boolean" -> (~a.bool) \/ b.bool
           [] a.t = "String" -> string_le(a.str, b.str)
           [] OTHER -> TRUE

-----------------------------------------------------------------------------
(* VirtualMachine, vm.rs.  A scope frame is a ValueMap (a function from    *)
(* the names it binds to values) with a mark of the operation that         *)
(* created it.                                                             *)

EmptyMap == [name \in {} |-> Nil]
Frame(created_by, map) == [created_by |-> created_by, map |-> map]

\* HashMap::insert
insert(map, name, value) ==
    [n \in DOMAIN map \cup {name} |-> IF n = name THEN value ELSE map[n]]

\* VirtualMachine::enter_scope, vm.rs:38-40
enter_scope(stack) == Append(stack, Frame("enter_scope", EmptyMap))

\* VirtualMachine::exit_scope popping two frames
exit_scope_Twice(stack) == SubSeq(stack, 1, Len(stack) - 2)

\* VirtualMachine::exit_scope, vm.rs:42-44 ; Vec::pop of an empty vector does nothing
exit_scope(stack) == IF stack = <<>> THEN <<>> ELSE SubSeq(stack, 1, Len(stack) - 1)

\* VirtualMachine::declare_variable, vm.rs:46-51, on a stack that is not empty
declare_variable(stack, name, value) ==
    [stack EXCEPT ![Len(stack)].map = insert(@, name, value)]

\* the frames that bind name
FramesWith(stack, name) == {i \in 1..Len(stack) : name \in DOMAIN stack[i].map}

Max(S) == CHOOSE i \in S : \A j \in S : j <= i

\* VirtualMachine::lookup_variable, vm.rs:53-60
lookup_variable(stack, name) ==
    IF FramesWith(stack, name) = {} THEN None
    ELSE Some(stack[Max(FramesWith(stack, name))].map[name])

\* VirtualMachine::change_or_create_value with first_mut replaced by last_mut
change_or_create_value_Last(stack, name, value) ==
    IF FramesWith(stack, name) = {}
    THEN [stack EXCEPT ![Len(stack)].map = insert(@, name, value)]
    ELSE [stack EXCEPT ![Max(FramesWith(stack, name))].map = insert(@, name, value)]

\* VirtualMachine::change_or_create_value, vm.rs:62-74, on a stack that is not empty
change_or_create_value(stack, name, value) ==
    IF FramesWith(stack, name) = {}
    THEN [stack EXCEPT ![1].map = insert(@, name, value)]
    ELSE [stack EXCEPT ![Max(FramesWith(stack, name))].map = insert(@, name, value)]

\* print!("{}\t", n) of a whole number, vm.rs:23
format_f64(n) == ToString(n.n)

RECURSIVE print(_, _)
\* the native print, vm.rs:20-32 : every argument is written as it is
\* reached, so an invalid argument leaves what was written before it
print(args, out) ==
    IF args = <<>> THEN [ok |-> TRUE, val |-> Nil, out |-> Append(out, "\n")]
    ELSE CASE Head(args).t = "Number" ->
                print(Tail(args), Append(out, format_f64(Head(args).num) \o "\t"))
           [] Head(args).t = "Boolean" ->
                print(Tail(args), Append(out, (IF Head(args).bool THEN "true" ELSE "false") \o "\t"))
           [] Head(args).t = "String" ->
                print(Tail(args), Append(out, Concat(Head(args).str) \o "\t"))
           [] Head(args).t = "Nil" -> print(Tail(args), Append(out, "nil\t"))
           [] OTHER -> [ok |-> FALSE, err |-> "Invalid argument", out |-> out]

-----------------------------------------------------------------------------
(* Expression::execute, ast.rs:31-96.  An expression cannot change the     *)
(* scope stack; it can print.  The result carries the output (.out).       *)

EOk(value, out) == [ok |-> TRUE, val |-> value, out |-> out]
EErr(msg, out) == [ok |-> FALSE, err |-> msg, out |-> out]

\* the ? operator on a result with output
ETry(result, Continue(_, _)) ==
    IF result.ok THEN Continue(result.val, result.out) ELSE result

\* ast.rs:45-63
number_operation(left, operator, right, out) ==
    CASE operator = "+" -> EOk(Number(f64_add(left, right)), out)
      [] operator = "-" -> EOk(Number(f64_sub(left, right)), out)
      [] operator = "*" -> EOk(Number(f64_mul(left, right)), out)
      [] operator = "/" -> EOk(Number(f64_div(left, right)), out)
      [] operator = "<" -> EOk(Boolean(f64_lt(left, right)), out)
      [] operator = ">" -> EOk(Boolean(f64_lt(right, left)), out)
      [] operator = "<=" -> EOk(Boolean(f64_le(left, right)), out)
      [] operator = ">=" -> EOk(Boolean(f64_le(right, left)), out)
      [] operator = "==" -> EOk(Boolean(f64_eq(left, right)), out)
      [] operator = "~=" -> EOk(Boolean(~f64_eq(left, right)), out)
      [] OTHER -> EErr("Unknown operator for numbers", out)

\* ast.rs:64-71
string_operation(left, operator, right, out) ==
    CASE operator = ".." -> EOk(String(left \o right), out)
      [] operator = "==" -> EOk(Boolean(left = right), out)
      [] operator = "~=" -> EOk(Boolean(left # right), out)
      [] OTHER -> EErr("Invalid operator for strings", out)

\* ast.rs:72-78
boolean_operation(left, operator, right, out) ==
    CASE operator = "==" -> EOk(Boolean(left = right), out)
      [] operator = "~=" -> EOk(Boolean(left # right), out)
      [] OTHER -> EErr("Invalid operator for booleans", out)

\* binary_operation with Nil == Nil and Nil ~= Nil given a value
binary_operation_NilEquality(lhs, operator, rhs, out) ==
    CASE lhs.t = "Number" /\ rhs.t = "Number" ->
            number_operation(lhs.num, operator, rhs.num, out)
      [] lhs.t = "String" /\ rhs.t = "String" ->
            string_operation(lhs.str, operator, rhs.str, out)
      [] lhs.t = "Boolean" /\ rhs.t = "Boolean" ->
            boolean_operation(lhs.bool, operator, rhs.bool, out)
      [] lhs.t = "Nil" /\ rhs.t = "Nil" /\ operator \in {"==", "~="} ->
            EOk(Boolean(operator = "=="), out)
      [] OTHER -> EErr("Invalid expression", out)

\* the match on the operand pair, ast.rs:44-83
binary_operation(lhs, operator, rhs, out) ==
    CASE lhs.t = "Number" /\ rhs.t = "Number" ->
            number_operation(lhs.num, operator, rhs.num, out)
      [] lhs.t = "String" /\ rhs.t = "String" ->
            string_operation(lhs.str, operator, rhs.str, out)
      [] lhs.t = "Boolean" /\ rhs.t = "Boolean" ->
            boolean_operation(lhs.bool, operator, rhs.bool, out)
      [] OTHER -> EErr("Invalid expression", out)

\* the dispatch of a call, ast.rs:90-93
call_function(function_name, callee, args, out) ==
    IF callee # None /\ callee[1].t = "NativeFunction" THEN print(args, out)
    ELSE EErr("Function '" \o function_name \o "' not found", out)

\* _g.lookup_variable(ident).unwrap_or(EvalValue::Nil), ast.rs:38
read_variable(stack, name) ==
    IF lookup_variable(stack, name) = None THEN Nil ELSE lookup_variable(stack, name)[1]

RECURSIVE execute_expression(_, _, _), execute_arguments(_, _, _, _)

\* execute_arguments with the arguments evaluated from the last to the first
execute_arguments_Reversed(function_arguments, args, stack, out) ==
    IF function_arguments = <<>> THEN EOk(args, out)
    ELSE ETry(execute_arguments(Tail(function_arguments), <<>>, stack, out),
              LAMBDA rest, o1 :
         ETry(execute_expression(Head(function_arguments), stack, o1), LAMBDA value, o2 :
         EOk(args \o <<value>> \o rest, o2)))

\* the argument loop of a call, ast.rs:86-89
execute_arguments(function_arguments, args, stack, out) ==
    IF function_arguments = <<>> THEN EOk(args, out)
    ELSE ETry(execute_expression(Head(function_arguments), stack, out), LAMBDA value, o1 :
         execute_arguments(Tail(function_arguments), Append(args, value), stack, o1))

\* Expression::execute, ast.rs:31-96
execute_expression(expr, stack, out) ==
    CASE expr.e = "NumberLiteral" -> EOk(Number(expr.num), out)
      [] expr.e = "BooleanLiteral" -> EOk(Boolean(expr.bool), out)
      [] expr.e = "StringLiteral" -> EOk(String(expr.str), out)
      [] expr.e = "NilLiteral" -> EOk(Nil, out)
      [] expr.e = "IdentifierExpression" -> EOk(read_variable(stack, expr.name), out)
      [] expr.e = "BinaryExpression" ->
            ETry(execute_expression(expr.lhs, stack, out), LAMBDA lhs, o1 :
            ETry(execute_expression(expr.rhs, stack, o1), LAMBDA rhs, o2 :
            binary_operation(lhs, expr.op, rhs, o2)))
      [] expr.e = "FunctionCall" ->
            ETry(execute_arguments(expr.args, <<>>, stack, out), LAMBDA args, o1 :
            call_function(expr.name, lookup_variable(stack, expr.name), args, o1))

-----------------------------------------------------------------------------
(* The parser's inputs: every token vector up to MaxTokens over a small    *)
(* alphabet, operator chains  operand (operator operand)*  over every      *)
(* binary operator token, and calls  f ( e, ..., e )  followed by a        *)
(* trailer.                                                                *)

TokenAlphabet ==
    {LiteralNumber(F64(1)), Identifier("f"), Tok("Plus"), Tok("Asterisk"),
     Tok("LeftParen"), Tok("RightParen"), Tok("Comma"), Tok("Local"), Tok("Assigment")}

ChainOperands == {LiteralNumber(F64(1)), LiteralNumber(F64(2)), LiteralString(<<"h", "i">>)}
ChainOperators ==
    {Tok(kind) : kind \in BandOperators(1) \cup BandOperators(2) \cup BandOperators(3)}
    \cup {Tok("Concatanation")}

\* the chain  operands[1] operators[1] operands[2] ... operands[n + 1]
Chain(operands, operators) ==
    [i \in 1..(2 * Len(operands) - 1) |->
        IF i % 2 = 1 THEN operands[(i + 1) \div 2] ELSE operators[i \div 2]]

\* token vectors of argument expressions
ArgumentTokens ==
    {<<LiteralNumber(F64(1))>>, <<Identifier("x")>>,
     <<LiteralNumber(F64(1)), Tok("Plus"), LiteralNumber(F64(2))>>}
CallTrailers == {<<>>, <<Tok("RightParen")>>, <<Identifier("g")>>}

RECURSIVE JoinArguments(_)
\* the arguments separated by commas
JoinArguments(args) ==
    IF Len(args) = 0 THEN <<>>
    ELSE IF Len(args) = 1 THEN args[1]
    ELSE args[1] \o <<Tok("Comma")>> \o JoinArguments(Tail(args))

CallTokens(name, args, trailer) ==
    <<Identifier(name), Tok("LeftParen")>> \o JoinArguments(args) \o <<Tok("RightParen")>>
    \o trailer

\* no comma or one comma after the last element of a table literal
TrailingCommas == {<<>>, <<Tok("Comma")>>}

\* the table literal  { e1 , ... , en }  or  { e1 , ... , en , }
TableTokens(elements, trailing, trailer) ==
    <<Tok("LeftBracket")>> \o JoinArguments(elements)
    \o (IF Len(elements) = 0 THEN <<>> ELSE trailing)
    \o <<Tok("RightBracket")>> \o trailer

ParameterNames == {"a", "b"}

\* the blocks of the function declarations given to the parser: their
\* tokens and the statements they are
FunctionBlocks ==
    {[toks |-> <<>>, block |-> <<>>],
     [toks |-> <<Identifier("x"), Tok("Assigment"), LiteralNumber(F64(1))>>,
      block |-> <<AssigmentStatement("x", NumberLiteral(F64(1)))>>]}

\* the declaration  function name ( p1 , ... , pn ) body end
FunctionTokens(name, parameters, body) ==
    <<Tok("Function"), Identifier(name), Tok("LeftParen")>>
    \o JoinArguments([i \in 1..Len(parameters) |-> <<Identifier(parameters[i])>>])
    \o <<Tok("RightParen")>> \o body \o <<Tok("End")>>

\* the parser is given the token vector toks
ParserInput(toks) ==
    \/ \E len \in 0..MaxTokens : toks \in [1..len -> TokenAlphabet]
    \/ \E n \in 0..MaxChain :
          \E operands \in [1..(n + 1) -> ChainOperands], operators \in [1..n -> ChainOperators] :
             toks = Chain(operands, operators)
    \/ \E n \in 0..MaxArgs :
          \E args \in [1..n -> ArgumentTokens], trailer \in CallTrailers :
             toks = CallTokens("f", args, trailer)
    \/ \E n \in 0..MaxArgs :
          \E elements \in [1..n -> ArgumentTokens], trailing \in TrailingCommas,
             trailer \in CallTrailers :
             toks = TableTokens(elements, trailing, trailer)
    \/ \E n \in 0..MaxArgs :
          \E parameters \in [1..n -> ParameterNames], body \in FunctionBlocks :
             toks = FunctionTokens("f", parameters, body.toks)

-----------------------------------------------------------------------------
(* SpecParse: the parser applied to a token vector *)

\* Parser::parse_expression applied at an expression position, parser.rs:234
ParseExpression ==
    /\ p_called = "none"
    /\ p_called' = "parse_expression"
    /\ p_result' = Some(parse_expression(p_tokens))
    /\ UNCHANGED <<p_tokens, lexVars, vmVars>>

\* Parser::parse, parser.rs:38-49
Parse ==
    /\ p_called = "none"
    /\ p_called' = "parse"
    /\ p_result' = Some(parse(p_tokens))
    /\ UNCHANGED <<p_tokens, lexVars, vmVars>>

\* the lexer's variables while the lexer is not run
LexerOff ==
    /\ current = None
    /\ input = <<>>
    /\ tokens = <<>>
    /\ lex_result = None
    /\ lex_pc = "off"

InitParse ==
    /\ ParserInput(p_tokens)
    /\ p_called = "none"
    /\ p_result = None
    /\ LexerOff
    /\ VMOff

NextParse ==
    \/ ParseExpression
    \/ Parse

SpecParse == InitParse /\ [][NextParse]_vars

-----------------------------------------------------------------------------
(* Statement::execute, ast.rs:124-227, one step at a time.  activations is *)
(* the chain of the calls of Statement::execute in progress, outermost     *)
(* first.  An activation holds its statement, its position in the          *)
(* statement's code (pc, the index i of the next statement of the block    *)
(* it runs, the index j of the next elseif, the step of a for loop, the    *)
(* function a call statement has called) and two observations taken when   *)
(* it began: the depth of the scope stack and what the watched names read. *)

Top == activations[Len(activations)]

\* the names whose readings the activations record
VarNames == {"x"}

\* the call of a function of the program as the whole expression of a
\* statement
IsUserCall(expr) ==
    /\ expr.e = "FunctionCall"
    /\ lookup_variable(scopes_stack, expr.name) # None
    /\ lookup_variable(scopes_stack, expr.name)[1].t = "UserFn"

\* what the watched names read
Reads(stack) == [name \in VarNames |-> lookup_variable(stack, name)]

Activation(stmt) ==
    [stmt |-> stmt, pc |-> "start", i |-> 1, j |-> 1, step |-> F64(0), fn |-> Nil,
     depth |-> Len(scopes_stack), before |-> Reads(scopes_stack)]

\* a statement of the code in src/ is being executed
Running == activations # <<>> /\ vm_error = None /\ ret = Void

At(kind, pc) == Running /\ Top.stmt.s = kind /\ Top.pc = pc

\* the numbers the model stores
InRange(value) ==
    value.t = "Number" => (value.num.d = 1 /\ Abs(value.num.n) <= MaxNumber)

\* the frame on which the innermost function call in progress began, the
\* global frame when there is none
BaseDepth ==
    IF \E k \in 1..Len(activations) : activations[k].pc = "function_body"
    THEN activations[Max({k \in 1..Len(activations) :
                            activations[k].pc = "function_body"})].depth + 1
    ELSE 1

\* the scope stack can take another frame
ScopeRoom == Len(scopes_stack) - BaseDepth + 1 < MaxScopes

\* the block the top activation is running
CurrentBlock ==
    CASE Top.pc = "elseif_block" -> Top.stmt.elseif_statements[Top.j][2]
      [] Top.pc = "else_block" -> Top.stmt.else_block[1]
      [] Top.pc = "function_body" -> Top.fn.body
      [] OTHER -> Top.stmt.code_block

BlockPcs == {"body", "main", "elseif_block", "else_block", "function_body"}

\* the for statement ... in block has run every statement
BlockDone == Top.pc \in BlockPcs /\ Top.i > Len(CurrentBlock)

\* Ok(()) : the activation ends and its caller goes on
ReturnOk(stack, o) ==
    /\ scopes_stack' = stack
    /\ stdout' = o
    /\ activations' = SubSeq(activations, 1, Len(activations) - 1)
    /\ UNCHANGED <<vm_error, ret>>

\* Err(msg), by ? or return Err : every activation ends, vm.rs:78, and
\* main panics on the unwrap, main.rs:40
ReturnErr(msg, stack, o) ==
    /\ scopes_stack' = stack
    /\ stdout' = o
    /\ activations' = <<>>
    /\ vm_error' = Some(msg)
    /\ UNCHANGED ret

\* the activation goes on at pc
Goto(pc, stack, o) ==
    /\ scopes_stack' = stack
    /\ stdout' = o
    /\ activations' = [activations EXCEPT ![Len(activations)].pc = pc,
                                          ![Len(activations)].i = 1]
    /\ UNCHANGED <<vm_error, ret>>

\* VirtualMachine::execute, vm.rs:76-82 : the next statement of the
\* program begins.  The program is any sequence over Statements, chosen a
\* statement at a time.
VMExecute(Program) ==
    /\ activations = <<>>
    /\ vm_error = None
    /\ \E stat \in Program : activations' = <<Activation(stat)>>
    /\ stdout' = <<>>
    /\ ret' = Void
    /\ UNCHANGED <<scopes_stack, vm_error>>

\* ast.rs:127-131
ExecuteLocalVariableDeclaration ==
    /\ At("LocalVariableDeclaration", "start")
    /\ ~IsUserCall(Top.stmt.expr)
    /\ LET value == execute_expression(Top.stmt.expr, scopes_stack, stdout)
       IN  /\ Len(value.out) <= MaxOutput
           /\ IF value.ok
              THEN /\ InRange(value.val)
                   /\ ReturnOk(declare_variable(scopes_stack, Top.stmt.name, value.val),
                               value.out)
              ELSE ReturnErr(value.err, scopes_stack, value.out)
    /\ UNCHANGED <<lexVars, parserVars>>

\* ast.rs:132-136
ExecuteAssigmentStatement ==
    /\ At("AssigmentStatement", "start")
    /\ ~IsUserCall(Top.stmt.expr)
    /\ LET value == execute_expression(Top.stmt.expr, scopes_stack, stdout)
       IN  /\ Len(value.out) <= MaxOutput
           /\ IF value.ok
              THEN /\ InRange(value.val)
                   /\ ReturnOk(change_or_create_value(scopes_stack, Top.stmt.name, value.val),
                               value.out)
              ELSE ReturnErr(value.err, scopes_stack, value.out)
    /\ UNCHANGED <<lexVars, parserVars>>

\* ast.rs:221-224
ExecuteExpressionStatement ==
    /\ At("ExpressionStatement", "start")
    /\ ~IsUserCall(Top.stmt.expr)
    /\ LET value == execute_expression(Top.stmt.expr, scopes_stack, stdout)
       IN  /\ Len(value.out) <= MaxOutput
           /\ IF value.ok
              THEN ReturnOk(scopes_stack, value.out)
              ELSE ReturnErr(value.err, scopes_stack, value.out)
    /\ UNCHANGED <<lexVars, parserVars>>

\* for statement in block { statement.execute(_g)?; } : the next statement
\* of the block begins, ast.rs:144-146, 172-174, 199-201, 205-207, 212-214
ExecuteBlockStatement ==
    /\ Running
    /\ Top.pc \in BlockPcs
    /\ Top.i <= Len(CurrentBlock)
    /\ activations' = Append([activations EXCEPT ![Len(activations)].i = @ + 1],
                             Activation(CurrentBlock[Top.i]))
    /\ UNCHANGED <<scopes_stack, stdout, vm_error, ret, lexVars, parserVars>>

\* WhileLoop, ast.rs:141
WhileEnter ==
    /\ At("WhileLoop", "start")
    /\ ScopeRoom
    /\ Goto("cond", enter_scope(scopes_stack), stdout)
    /\ UNCHANGED <<lexVars, parserVars>>

\* WhileLoop, ast.rs:143 and 149-150 : the condition, before the first
\* pass and after every pass of the block
WhileCondition ==
    /\ \/ At("WhileLoop", "cond")
       \/ At("WhileLoop", "body") /\ BlockDone
    /\ LET condition == execute_expression(Top.stmt.loop_condition, scopes_stack, stdout)
       IN  /\ Len(condition.out) <= MaxOutput
           /\ IF ~condition.ok THEN ReturnErr(condition.err, scopes_stack, condition.out)
              ELSE IF is_true(condition.val) THEN Goto("body", scopes_stack, condition.out)
              ELSE ReturnOk(exit_scope(scopes_stack), condition.out)
    /\ UNCHANGED <<lexVars, parserVars>>

\* ForLoop, ast.rs:159-167
ForEnter ==
    /\ At("ForLoop", "start")
    /\ ScopeRoom
    /\ LET entered == enter_scope(scopes_stack)
           starting_value == execute_expression(Top.stmt.starting_value, entered, stdout)
           declared == declare_variable(entered, Top.stmt.iterator_identifier,
                                        starting_value.val)
           step_value == execute_expression(Top.stmt.step_value, declared,
                                            starting_value.out)
       IN  IF ~starting_value.ok
           THEN /\ Len(starting_value.out) <= MaxOutput
                /\ ReturnErr(starting_value.err, entered, starting_value.out)
           ELSE /\ InRange(starting_value.val)
                /\ Len(step_value.out) <= MaxOutput
                /\ IF ~step_value.ok
                   THEN ReturnErr(step_value.err, declared, step_value.out)
                   ELSE IF step_value.val.t # "Number"
                   THEN ReturnErr("Invalid step value", declared, step_value.out)
                   ELSE /\ scopes_stack' = declared
                        /\ stdout' = step_value.out
                        /\ activations' =
                              [activations EXCEPT ![Len(activations)].pc = "cond",
                                                  ![Len(activations)].step = step_value.val.num]
                        /\ UNCHANGED <<vm_error, ret>>
    /\ UNCHANGED <<lexVars, parserVars>>

\* ForLoop, ast.rs:169-171 and 187-188 : the iterator is read first, then
\* the ending value is evaluated, and the two are compared as EvalValues
ForCondition ==
    /\ At("ForLoop", "cond")
    /\ LET iterator == lookup_variable(scopes_stack, Top.stmt.iterator_identifier)
           ending_value == execute_expression(Top.stmt.ending_value, scopes_stack, stdout)
       IN  IF iterator = None
           THEN ReturnErr("called Option::unwrap() on a None value", scopes_stack, stdout)
           ELSE /\ Len(ending_value.out) <= MaxOutput
                /\ IF ~ending_value.ok
                   THEN ReturnErr(ending_value.err, scopes_stack, ending_value.out)
                   ELSE IF eval_value_le(iterator[1], ending_value.val)
                   THEN Goto("body", scopes_stack, ending_value.out)
                   ELSE ReturnOk(exit_scope(scopes_stack), ending_value.out)
    /\ UNCHANGED <<lexVars, parserVars>>

\* ForUpdate with the step added twice
ForUpdate_Twice ==
    /\ At("ForLoop", "body")
    /\ BlockDone
    /\ LET iterator == lookup_variable(scopes_stack, Top.stmt.iterator_identifier)
       IN  /\ iterator # None /\ iterator[1].t = "Number"
           /\ LET current_value ==
                     Number(f64_add(f64_add(iterator[1].num, Top.step), Top.step))
              IN  /\ Abs(current_value.num.n) <= MaxIterator
                  /\ Goto("cond",
                          change_or_create_value(scopes_stack,
                                                 Top.stmt.iterator_identifier,
                                                 current_value),
                          stdout)
    /\ UNCHANGED <<lexVars, parserVars>>

\* ForLoop, ast.rs:176-184 : after a pass of the block
ForUpdate ==
    /\ At("ForLoop", "body")
    /\ BlockDone
    /\ LET iterator == lookup_variable(scopes_stack, Top.stmt.iterator_identifier)
       IN  IF iterator # None /\ iterator[1].t = "Number"
           THEN LET current_value == Number(f64_add(iterator[1].num, Top.step))
                IN  /\ current_value.num.d = 1
                    /\ Abs(current_value.num.n) <= MaxIterator
                    /\ Goto("cond",
                            change_or_create_value(scopes_stack,
                                                   Top.stmt.iterator_identifier,
                                                   current_value),
                            stdout)
           ELSE ReturnErr("Invalid " \o Top.stmt.iterator_identifier \o " value",
                          scopes_stack, stdout)
    /\ UNCHANGED <<lexVars, parserVars>>

\* IfStatement, ast.rs:196-198 and 202
IfEnter ==
    /\ At("IfStatement", "start")
    /\ ScopeRoom
    /\ LET entered == enter_scope(scopes_stack)
           condition == execute_expression(Top.stmt.basic_condition, entered, stdout)
       IN  /\ Len(condition.out) <= MaxOutput
           /\ IF ~condition.ok THEN ReturnErr(condition.err, entered, condition.out)
              ELSE IF is_true(condition.val) THEN Goto("main", entered, condition.out)
              ELSE Goto("elseif", entered, condition.out)
    /\ UNCHANGED <<lexVars, parserVars>>

\* IfStatement, ast.rs:203-204 : the condition of the next elseif
IfElseIf ==
    /\ At("IfStatement", "elseif")
    /\ Top.j <= Len(Top.stmt.elseif_statements)
    /\ LET condition == execute_expression(Top.stmt.elseif_statements[Top.j][1],
                                           scopes_stack, stdout)
       IN  /\ Len(condition.out) <= MaxOutput
           /\ IF ~condition.ok THEN ReturnErr(condition.err, scopes_stack, condition.out)
              ELSE IF is_true(condition.val)
              THEN Goto("elseif_block", scopes_stack, condition.out)
              ELSE /\ activations' = [activations EXCEPT ![Len(activations)].j = @ + 1]
                   /\ stdout' = condition.out
                   /\ UNCHANGED <<scopes_stack, vm_error, ret>>
    /\ UNCHANGED <<lexVars, parserVars>>

\* IfStatement, ast.rs:208 : return Ok(()) after the block of an elseif
IfElseIfReturn ==
    /\ At("IfStatement", "elseif_block")
    /\ BlockDone
    /\ ReturnOk(scopes_stack, stdout)
    /\ UNCHANGED <<lexVars, parserVars>>

\* IfStatement, ast.rs:211 : no elseif was taken and there is an else block
IfElse ==
    /\ At("IfStatement", "elseif")
    /\ Top.j > Len(Top.stmt.elseif_statements)
    /\ Top.stmt.else_block # None
    /\ Goto("else_block", scopes_stack, stdout)
    /\ UNCHANGED <<lexVars, parserVars>>

\* IfStatement, ast.rs:218-219 : after the main block, after the else
\* block, or with no branch taken
IfExit ==
    /\ \/ At("IfStatement", "main") /\ BlockDone
       \/ At("IfStatement", "else_block") /\ BlockDone
       \/ /\ At("IfStatement", "elseif")
          /\ Top.j > Len(Top.stmt.elseif_statements)
          /\ Top.stmt.else_block = None
    /\ ReturnOk(exit_scope(scopes_stack), stdout)
    /\ UNCHANGED <<lexVars, parserVars>>

-----------------------------------------------------------------------------
(* The programs of SpecVM: statements over one variable, x.  The values    *)
(* stored are the small whole numbers and true; the conditions cover       *)
(* every kind of value is_true can meet.                                   *)

X == IdentifierExpression("x")
One == NumberLiteral(F64(1))

ValueExpressions == {One, BooleanLiteral(TRUE), BinaryExpression(X, "+", One)}

SimpleStatements ==
    {LocalVariableDeclaration("x", e) : e \in ValueExpressions}
    \cup {AssigmentStatement("x", e) : e \in ValueExpressions}

PrintStatements ==
    {ExpressionStatement(FunctionCall("print", <<X>>)),
     ExpressionStatement(FunctionCall("print", <<One, IdentifierExpression("print")>>)),
     ExpressionStatement(FunctionCall("x", <<>>))}

Conditions ==
    {BooleanLiteral(TRUE), BooleanLiteral(FALSE), NilLiteral, NumberLiteral(F64(0)),
     StringLiteral(<<>>), StringLiteral(<<"a">>), X}

BranchConditions == {BooleanLiteral(TRUE), BooleanLiteral(FALSE), X}

\* the blocks of loops
LoopBlocks == {<<>>} \cup {<<s>> : s \in SimpleStatements}

\* the blocks of the branches of an if
BranchBlocks == {<<>>, <<LocalVariableDeclaration("x", One)>>, <<AssigmentStatement("x", One)>>}

WhileLoops == {WhileLoop(c, b) : c \in Conditions, b \in LoopBlocks}

ForLoops ==
    {ForLoop("x", One, ending, step, b) :
        ending \in {NumberLiteral(F64(2)), BooleanLiteral(TRUE)},
        step \in {One, NilLiteral},
        b \in LoopBlocks}

ElseIfs == {<<>>} \cup {<< <<c, b>> >> : c \in BranchConditions, b \in BranchBlocks}

ElseBlocks == {None} \cup {Some(b) : b \in BranchBlocks}

IfStatements ==
    {IfStatement(c, b, <<>>, None) : c \in Conditions, b \in BranchBlocks}
    \cup {IfStatement(c, b, elseifs, else_block) :
            c \in BranchConditions, b \in BranchBlocks,
            elseifs \in ElseIfs, else_block \in ElseBlocks}

\* an if whose elseif is taken, an if whose main block is taken, a loop
\* that ends at once
InnerStatements ==
    {IfStatement(BooleanLiteral(FALSE), <<>>,
                 << <<BooleanLiteral(TRUE), <<LocalVariableDeclaration("x", One)>> >> >>, None),
     IfStatement(BooleanLiteral(TRUE), <<AssigmentStatement("x", One)>>, <<>>, None),
     WhileLoop(BooleanLiteral(FALSE), <<>>)}

\* statements inside statements
NestedStatements ==
    {WhileLoop(X, <<s>>) : s \in InnerStatements}
    \cup {ForLoop("x", One, NumberLiteral(F64(2)), One, <<s>>) : s \in InnerStatements}
    \cup {IfStatement(BooleanLiteral(TRUE), <<s, LocalVariableDeclaration("x", One)>>,
                      <<>>, None) : s \in InnerStatements}

Statements ==
    SimpleStatements \cup PrintStatements \cup WhileLoops \cup ForLoops
    \cup IfStatements \cup NestedStatements

-----------------------------------------------------------------------------
(* SpecVM: the virtual machine of VirtualMachine::new executes any         *)
(* program over Statements.                                                *)

VMExecuteStatement == VMExecute(Statements) /\ UNCHANGED <<lexVars, parserVars>>

\* VirtualMachine::new, vm.rs:13-36
VirtualMachineNew ==
    scopes_stack = <<Frame("new", [name \in {"print"} |-> NativeFunction("print")])>>

InitVM ==
    /\ VirtualMachineNew
    /\ activations = <<>>
    /\ stdout = <<>>
    /\ vm_error = None
    /\ ret = Void
    /\ LexerOff
    /\ ParserOff

NextVM ==
    \/ VMExecuteStatement
    \/ ExecuteLocalVariableDeclaration
    \/ ExecuteAssigmentStatement
    \/ ExecuteExpressionStatement
    \/ ExecuteBlockStatement
    \/ WhileEnter
    \/ WhileCondition
    \/ ForEnter
    \/ ForCondition
    \/ ForUpdate
    \/ IfEnter
    \/ IfElseIf
    \/ IfElseIfReturn
    \/ IfElse
    \/ IfExit

SpecVM == InitVM /\ [][NextVM]_vars

-----------------------------------------------------------------------------
(* Properties of the evaluator, checked under SpecVM *)

\* the step ends the top activation with Ok(())
CompletesOk ==
    /\ activations # <<>>
    /\ vm_error' = None
    /\ Len(activations') < Len(activations)

\* C1: whenever Statement::execute completes a statement (while, for, if
\* with whichever branch taken, local, assignment, expression statement)
\* without error, the depth of the scope stack is the depth the statement
\* began with.
C1_ScopePairing ==
    [][CompletesOk => Len(scopes_stack') = Top.depth]_vars

\* the blocks of a statement
BlocksOf(stmt) ==
    CASE stmt.s \in {"WhileLoop", "ForLoop", "RepeatUntilLoop"} -> {stmt.code_block}
      [] stmt.s = "IfStatement" ->
            {stmt.code_block}
            \cup {stmt.elseif_statements[k][2] : k \in DOMAIN stmt.elseif_statements}
            \cup {stmt.else_block[k] : k \in DOMAIN stmt.else_block}
      [] OTHER -> {}

RECURSIVE StatementsIn(_)
\* the statements inside the blocks of a statement, at any depth
StatementsIn(stmt) ==
    UNION {UNION {{block[k]} \cup StatementsIn(block[k]) : k \in DOMAIN block} :
              block \in BlocksOf(stmt)}

DeclaresLocal(stmt, name) ==
    \E inner \in StatementsIn(stmt) :
        inner.s = "LocalVariableDeclaration" /\ inner.name = name

Assigns(stmt, name) ==
    \E inner \in StatementsIn(stmt) :
        inner.s = "AssigmentStatement" /\ inner.name = name

\* C2: when a while, for or if statement with a local x in one of its
\* blocks (and no assignment to x) completes without error, x reads what
\* it read before the statement: no binding, or the binding of before.
C2_ScopeIsolation ==
    [][(CompletesOk /\ Top.stmt.s \in {"WhileLoop", "ForLoop", "IfStatement"})
        => \A name \in VarNames :
              (DeclaresLocal(Top.stmt, name) /\ ~Assigns(Top.stmt, name))
              => lookup_variable(scopes_stack', name) = Top.before[name]]_vars

\* the truth of a value as the language defines it
Truthy(value) == ~(value.t = "Nil" \/ (value.t = "Boolean" /\ ~value.bool))

\* the value of the condition the step tests, in a step that tests one
TestedValue ==
    CASE At("IfStatement", "start") ->
            execute_expression(Top.stmt.basic_condition, enter_scope(scopes_stack), stdout)
      [] At("IfStatement", "elseif") /\ Top.j <= Len(Top.stmt.elseif_statements) ->
            execute_expression(Top.stmt.elseif_statements[Top.j][1], scopes_stack, stdout)
      [] OTHER ->
            execute_expression(Top.stmt.loop_condition, scopes_stack, stdout)

\* the step tests the condition of an if, an elseif or a while
TestsCondition ==
    /\ \/ At("IfStatement", "start")
       \/ At("IfStatement", "elseif") /\ Top.j <= Len(Top.stmt.elseif_statements)
       \/ At("WhileLoop", "cond")
       \/ At("WhileLoop", "body") /\ BlockDone
    /\ vm_error' = None
    /\ activations' # activations

\* the step goes on into the block the condition guards
EntersGuardedBlock ==
    /\ Len(activations') = Len(activations)
    /\ activations'[Len(activations)].pc \in {"main", "elseif_block", "body"}

\* C4: a while, if or elseif condition lets its block run exactly when its
\* value is neither Nil nor Boolean(false): Number(0), true, the empty
\* string and non-empty strings are true, Nil and false are false.
C4_Truthiness ==
    [][TestsCondition => (EntersGuardedBlock <=> Truthy(TestedValue.val))]_vars

\* the frame an assignment to name must write: the topmost frame that
\* binds name, the bottom frame when none does
TargetFrame(stack, name) ==
    IF \E i \in 1..Len(stack) : name \in DOMAIN stack[i].map
    THEN CHOOSE i \in 1..Len(stack) :
            /\ name \in DOMAIN stack[i].map
            /\ \A j \in (i + 1)..Len(stack) : name \notin DOMAIN stack[j].map
    ELSE 1

\* the step is an assignment statement that completes
AssignmentCompletes == At("AssigmentStatement", "start") /\ CompletesOk

\* stack2 is stack with value written to name in frame target and nothing else changed
WrittenOnlyAt(stack, stack2, target, name, value) ==
    /\ Len(stack2) = Len(stack)
    /\ \A i \in 1..Len(stack) : i # target => stack2[i] = stack[i]
    /\ DOMAIN stack2[target].map = DOMAIN stack[target].map \cup {name}
    /\ stack2[target].map[name] = value
    /\ \A other \in DOMAIN stack[target].map \ {name} :
          stack2[target].map[other] = stack[target].map[other]

\* C5: an assignment writes its value into the topmost frame that binds
\* the name, or into the bottom frame when no frame binds it, and changes
\* no other frame and no other name; the exit of a block leaves the bottom
\* frame as it is, so a global created inside a block outlives the block.
C5_AssignmentTarget ==
    [][/\ AssignmentCompletes =>
            WrittenOnlyAt(scopes_stack, scopes_stack',
                          TargetFrame(scopes_stack, Top.stmt.name), Top.stmt.name,
                          execute_expression(Top.stmt.expr, scopes_stack, stdout).val)
       /\ (CompletesOk /\ Top.stmt.s \in {"WhileLoop", "ForLoop", "IfStatement"})
            => (Len(scopes_stack') >= 1 /\ scopes_stack'[1] = scopes_stack[1])]_vars

\* x = 1 has run in the block of a while loop that began with no binding
\* of x: the global frame binds x to 1, the frame of the loop does not
C5_Witness ==
    /\ activations # <<>>
    /\ vm_error = None
    /\ Top.stmt = WhileLoop(X, <<AssigmentStatement("x", One)>>)
    /\ Top.pc = "body"
    /\ Top.i = 2
    /\ Top.before["x"] = None
    /\ Len(scopes_stack) = 2
    /\ "x" \notin DOMAIN scopes_stack[2].map
    /\ "x" \in DOMAIN scopes_stack[1].map
    /\ scopes_stack[1].map["x"] = Number(F64(1))

\* C6: the scope stack always has a frame, and its bottom frame is the
\* frame VirtualMachine::new created, which binds print.
C6_StackNeverEmpty ==
    /\ Len(scopes_stack) >= 1
    /\ scopes_stack[1].created_by = "new"
    /\ "print" \in DOMAIN scopes_stack[1].map

\* a while loop inside the block of an if has entered and exited its
\* scope: the frame of the if and the global frame remain
C6_Witness ==
    /\ activations # <<>>
    /\ vm_error = None
    /\ Top.stmt.s = "IfStatement"
    /\ Top.pc = "main"
    /\ Top.i = 2
    /\ Top.stmt.code_block[1] = WhileLoop(BooleanLiteral(FALSE), <<>>)
    /\ Len(scopes_stack) = 2
    /\ scopes_stack[1].created_by = "new"

-----------------------------------------------------------------------------
(* Functions, return and repeat-until.  parser.rs builds                   *)
(* FunctionDeclaration, ReturnStatement and RepeatUntilLoop, and ast.rs    *)
(* has no evaluator for them: these actions follow the documented          *)
(* behaviour of the evaluator (return propagation, call evaluation,        *)
(* repeat-until).  A statement yields Void or the value of a return; ret   *)
(* is what the statement that ended last has yielded.  A call of a         *)
(* function of the program is the whole expression of a local              *)
(* declaration, an assignment or an expression statement outside function  *)
(* bodies, and function declarations are statements of the top level,      *)
(* where the current scope is the global scope.                            *)

\* a function declaration binds the name to the function value
ExecuteFunctionDeclaration ==
    /\ At("FunctionDeclaration", "start")
    /\ ReturnOk(declare_variable(scopes_stack, Top.stmt.function_name,
                                 UserFn(Top.stmt.function_arguments,
                                        Top.stmt.function_body)),
                stdout)
    /\ UNCHANGED <<lexVars, parserVars>>

\* return e : the statement yields the value of e
ExecuteReturnStatement ==
    /\ At("ReturnStatement", "start")
    /\ ~IsUserCall(Top.stmt.expr)
    /\ LET value == execute_expression(Top.stmt.expr, scopes_stack, stdout)
       IN  /\ Len(value.out) <= MaxOutput
           /\ IF value.ok
              THEN /\ InRange(value.val)
                   /\ scopes_stack' = scopes_stack
                   /\ stdout' = value.out
                   /\ activations' = SubSeq(activations, 1, Len(activations) - 1)
                   /\ ret' = value.val
                   /\ UNCHANGED vm_error
              ELSE ReturnErr(value.err, scopes_stack, value.out)
    /\ UNCHANGED <<lexVars, parserVars>>

\* a statement of a block has yielded a value: the construct that runs the
\* block ignores it and goes on with the block
PropagateReturn_Ignored ==
    /\ activations # <<>>
    /\ vm_error = None
    /\ ret # Void
    /\ Top.pc \in BlockPcs \ {"function_body"}
    /\ ret' = Void
    /\ UNCHANGED <<scopes_stack, activations, stdout, vm_error, lexVars, parserVars>>

\* a statement of a block has yielded a value: the construct that runs the
\* block exits its scope and yields that value, without running the
\* remaining statements
PropagateReturn ==
    /\ activations # <<>>
    /\ vm_error = None
    /\ ret # Void
    /\ Top.pc \in BlockPcs \ {"function_body"}
    /\ scopes_stack' = exit_scope(scopes_stack)
    /\ activations' = SubSeq(activations, 1, Len(activations) - 1)
    /\ UNCHANGED <<stdout, vm_error, ret, lexVars, parserVars>>

RECURSIVE bind_parameters(_, _, _)
\* bind parameters positionally
bind_parameters(stack, params, args) ==
    IF params = <<>> THEN stack
    ELSE bind_parameters(declare_variable(stack, Head(params), Head(args)),
                         Tail(params), Tail(args))

\* the call of a function of the program: the arguments are evaluated, a
\* scope is entered, the argument count is checked, the parameters are
\* bound and the body begins
CallUserFunction ==
    /\ Running
    /\ Top.pc = "start"
    /\ Top.stmt.s \in {"LocalVariableDeclaration", "AssigmentStatement",
                       "ExpressionStatement"}
    /\ IsUserCall(Top.stmt.expr)
    /\ ScopeRoom
    /\ LET callee == lookup_variable(scopes_stack, Top.stmt.expr.name)[1]
           args == execute_arguments(Top.stmt.expr.args, <<>>, scopes_stack, stdout)
           entered == enter_scope(scopes_stack)
       IN  /\ Len(args.out) <= MaxOutput
           /\ IF ~args.ok THEN ReturnErr(args.err, scopes_stack, args.out)
              ELSE IF Len(callee.params) # Len(args.val)
              THEN ReturnErr("Wrong number of arguments", exit_scope(entered), args.out)
              ELSE /\ scopes_stack' = bind_parameters(entered, callee.params, args.val)
                   /\ stdout' = args.out
                   /\ activations' =
                         [activations EXCEPT ![Len(activations)].pc = "function_body",
                                             ![Len(activations)].i = 1,
                                             ![Len(activations)].fn = callee]
                   /\ UNCHANGED <<vm_error, ret>>
    /\ UNCHANGED <<lexVars, parserVars>>

\* the body of a called function has yielded a value or has run to its
\* end: the scope of the call is exited, the call evaluates to the value
\* (Nil when no statement returned) and the statement of the call completes
ReturnFromCall ==
    /\ activations # <<>>
    /\ vm_error = None
    /\ Top.pc = "function_body"
    /\ ret # Void \/ BlockDone
    /\ LET value == IF ret = Void THEN Nil ELSE ret
           exited == exit_scope(scopes_stack)
       IN  /\ scopes_stack' =
                 CASE Top.stmt.s = "LocalVariableDeclaration" ->
                        declare_variable(exited, Top.stmt.name, value)
                   [] Top.stmt.s = "AssigmentStatement" ->
                        change_or_create_value(exited, Top.stmt.name, value)
                   [] OTHER -> exited
           /\ ret' = Void
    /\ activations' = SubSeq(activations, 1, Len(activations) - 1)
    /\ UNCHANGED <<stdout, vm_error, lexVars, parserVars>>

\* repeat-until enters a new scope and executes the body
RepeatEnter ==
    /\ At("RepeatUntilLoop", "start")
    /\ ScopeRoom
    /\ Goto("body", enter_scope(scopes_stack), stdout)
    /\ UNCHANGED <<lexVars, parserVars>>

\* repeat-until evaluates the condition after the body and loops while it
\* is true
RepeatCondition ==
    /\ At("RepeatUntilLoop", "body")
    /\ BlockDone
    /\ LET condition == execute_expression(Top.stmt.loop_condition, scopes_stack, stdout)
       IN  /\ Len(condition.out) <= MaxOutput
           /\ IF ~condition.ok THEN ReturnErr(condition.err, scopes_stack, condition.out)
              ELSE IF is_true(condition.val) THEN Goto("body", scopes_stack, condition.out)
              ELSE ReturnOk(exit_scope(scopes_stack), condition.out)
    /\ UNCHANGED <<lexVars, parserVars>>

-----------------------------------------------------------------------------
(* The programs of SpecFn: declarations of f, calls of f, and statements   *)
(* of every other kind.  A body returns at the top of the body, inside an  *)
(* if, at depth two inside a while and an if with statements after the     *)
(* return at both levels, inside a for and a repeat-until, inside an else  *)
(* block, or not at all.  No program takes an elseif.                      *)

Returned == StringLiteral(<<"r">>)

ShallowBody == <<ReturnStatement(One)>>

BranchBody ==
    <<IfStatement(BooleanLiteral(TRUE), <<ReturnStatement(BooleanLiteral(TRUE))>>, <<>>, None),
      ReturnStatement(One)>>

DeepBody ==
    <<WhileLoop(BooleanLiteral(TRUE),
                <<IfStatement(BooleanLiteral(TRUE),
                              <<ReturnStatement(Returned), AssigmentStatement("x", One)>>,
                              <<>>, None),
                  AssigmentStatement("x", One)>>),
      ReturnStatement(One)>>

LoopBody ==
    <<ForLoop("x", One, NumberLiteral(F64(2)), One,
              <<RepeatUntilLoop(<<ReturnStatement(X)>>, BooleanLiteral(TRUE)),
                AssigmentStatement("x", BooleanLiteral(TRUE))>>),
      ReturnStatement(BooleanLiteral(TRUE))>>

ElseBody ==
    <<IfStatement(BooleanLiteral(FALSE), <<>>,
                  << <<BooleanLiteral(FALSE), <<>> >> >>,
                  Some(<<ReturnStatement(NilLiteral)>>)),
      ReturnStatement(One)>>

NoReturnBody == <<AssigmentStatement("x", One)>>

FunctionBodies == {ShallowBody, BranchBody, DeepBody, LoopBody, ElseBody, NoReturnBody}

Declarations ==
    {FunctionDeclaration("f", <<>>, body) : body \in FunctionBodies}
    \cup {FunctionDeclaration("f", <<"x">>, <<ReturnStatement(X)>>)}

Calls ==
    {LocalVariableDeclaration("x", FunctionCall("f", <<>>)),
     AssigmentStatement("x", FunctionCall("f", <<>>)),
     ExpressionStatement(FunctionCall("f", <<>>)),
     LocalVariableDeclaration("x", FunctionCall("f", <<One>>)),
     WhileLoop(X, <<AssigmentStatement("x", FunctionCall("f", <<>>))>>)}

RepeatLoops ==
    {RepeatUntilLoop(<<AssigmentStatement("x", BinaryExpression(X, "+", One))>>,
                     BinaryExpression(X, "<", NumberLiteral(F64(2)))),
     RepeatUntilLoop(<<LocalVariableDeclaration("x", One)>>, X)}

OtherStatements ==
    {LocalVariableDeclaration("x", One),
     AssigmentStatement("x", NilLiteral),
     ExpressionStatement(FunctionCall("print", <<X>>)),
     ForLoop("x", One, NumberLiteral(F64(2)), One, <<>>),
     IfStatement(X, <<>>, << <<BooleanLiteral(FALSE), <<>> >> >>,
                 Some(<<AssigmentStatement("x", One)>>))}

FnStatements == Declarations \cup Calls \cup RepeatLoops \cup OtherStatements

-----------------------------------------------------------------------------
(* SpecFn: the virtual machine executes any program over FnStatements.     *)

VMExecuteFnStatement == VMExecute(FnStatements) /\ UNCHANGED <<lexVars, parserVars>>

NextFn ==
    \/ VMExecuteFnStatement
    \/ ExecuteLocalVariableDeclaration
    \/ ExecuteAssigmentStatement
    \/ ExecuteExpressionStatement
    \/ ExecuteBlockStatement
    \/ WhileEnter
    \/ WhileCondition
    \/ ForEnter
    \/ ForCondition
    \/ ForUpdate
    \/ IfEnter
    \/ IfElseIf
    \/ IfElse
    \/ IfExit
    \/ ExecuteFunctionDeclaration
    \/ ExecuteReturnStatement
    \/ PropagateReturn
    \/ CallUserFunction
    \/ ReturnFromCall
    \/ RepeatEnter
    \/ RepeatCondition

SpecFn == InitVM /\ [][NextFn]_vars

-----------------------------------------------------------------------------
(* Properties of return, checked under SpecFn *)

\* a statement has yielded a value that has not reached its call
ReturnInFlight == activations # <<>> /\ vm_error = None /\ ret # Void

\* the statement of the call receives value as the value of the call
CallYields(value) ==
    /\ Top.stmt.s \in {"LocalVariableDeclaration", "AssigmentStatement"}
          => lookup_variable(scopes_stack', Top.stmt.name) = Some(value)
    /\ ret' = Void

\* C3: a return e yields the value of e; while the value is on its way
\* every step ends the construct it has reached, so no statement begins and
\* nothing is written or printed by a statement after the return, at any
\* level; the value is unchanged until it reaches the body of the called
\* function, and the call evaluates to exactly that value.
C3_ReturnPropagation ==
    [][/\ (At("ReturnStatement", "start") /\ ~IsUserCall(Top.stmt.expr) /\ vm_error' = None)
            => ret' = execute_expression(Top.stmt.expr, scopes_stack, stdout).val
       /\ ReturnInFlight
            => /\ activations' = SubSeq(activations, 1, Len(activations) - 1)
               /\ stdout' = stdout
               /\ IF Top.pc = "function_body"
                  THEN CallYields(ret)
                  ELSE ret' = ret /\ scopes_stack' = exit_scope(scopes_stack)]_vars

\* local x = f() or x = f() has completed with the value returned at
\* depth two of the body of f (inside the if inside the while)
C3_Witness ==
    /\ activations = <<>>
    /\ vm_error = None
    /\ "f" \in DOMAIN scopes_stack[1].map
    /\ scopes_stack[1].map["f"] = UserFn(<<>>, DeepBody)
    /\ "x" \in DOMAIN scopes_stack[1].map
    /\ scopes_stack[1].map["x"] = String(<<"r">>)

-----------------------------------------------------------------------------
(* Properties of the parser, checked under SpecParse *)

IsNumberToken(token) == token.k = "Literal" /\ token.lt = "Number"

\* how tightly an operator binds: comparison and equality 1, additive 2,
\* multiplicative 3
BindingStrength(kind) ==
    CASE kind \in {"Asterisk", "Slash"} -> 3
      [] kind \in {"Plus", "Minus"} -> 2
      [] kind \in {"Equal", "NotEqual", "LessThan", "LessThanOrEqual",
                   "GreaterThan", "GreaterThanOrEqual"} -> 1
      [] OTHER -> 0

\* the token vector is  a op1 b op2 c  with number literals a, b, c and
\* operators of two different bands
TwoBandChain(toks) ==
    /\ Len(toks) = 5
    /\ \A i \in {1, 3, 5} : IsNumberToken(toks[i])
    /\ \A i \in {2, 4} : BindingStrength(toks[i].k) > 0
    /\ BindingStrength(toks[2].k) # BindingStrength(toks[4].k)

\* C7: parsing  a op1 b op2 c  with number literals a, b, c groups the
\* operator of the tighter band first: Binary(a, op1, Binary(b, op2, c)) when
\* op2 is multiplicative and op1 additive or comparison, or op2 additive and
\* op1 comparison (so a + b * c is Binary(a, +, Binary(b, *, c))), and
\* Binary(Binary(a, op1, b), op2, c) when op1 is of the tighter band.
C7_Precedence ==
    (p_called = "parse_expression" /\ TwoBandChain(p_tokens)) =>
        LET a == NumberLiteral(p_tokens[1].num)
            b == NumberLiteral(p_tokens[3].num)
            c == NumberLiteral(p_tokens[5].num)
            op1 == OperatorString(p_tokens[2].k)
            op2 == OperatorString(p_tokens[4].k)
        IN  p_result = Some(POk(
                IF BindingStrength(p_tokens[4].k) > BindingStrength(p_tokens[2].k)
                THEN BinaryExpression(a, op1, BinaryExpression(b, op2, c))
                ELSE BinaryExpression(BinaryExpression(a, op1, b), op2, c),
                <<>>))

\* 1 + 2 * 1 has been parsed to Binary(1, +, Binary(2, *, 1))
C7_Witness ==
    /\ p_called = "parse_expression"
    /\ p_tokens = <<LiteralNumber(F64(1)), Tok("Plus"), LiteralNumber(F64(2)),
                    Tok("Asterisk"), LiteralNumber(F64(1))>>
    /\ p_result = Some(POk(BinaryExpression(NumberLiteral(F64(1)), "+",
                               BinaryExpression(NumberLiteral(F64(2)), "*",
                                                NumberLiteral(F64(1)))),
                           <<>>))

RECURSIVE ParsedArguments(_)
\* the expressions of a list of argument token vectors
ParsedArguments(args) ==
    IF Len(args) = 0 THEN <<>>
    ELSE <<parse_expression(args[1]).val>> \o ParsedArguments(Tail(args))

\* C8: for every n >= 0, the tokens  f ( e1 , ... , en )  parse to
\* FunctionCall(f, [e1..en]) and the cursor is left right after the closing
\* parenthesis; in particular  f ( )  parses to a call without arguments.
C8_CallArguments ==
    \A args \in SeqsUpTo(ArgumentTokens, MaxArgs), trailer \in CallTrailers :
        (p_called = "parse_expression" /\ p_tokens = CallTokens("f", args, trailer)) =>
            p_result = Some(POk(FunctionCall("f", ParsedArguments(args)), trailer))

\* C9: the parser accepts  x .. y  and produces Binary(x, "..", y), for
\* string literals x and y.
C9_Concatenation ==
    (/\ p_called = "parse_expression"
     /\ Len(p_tokens) = 3
     /\ p_tokens[2] = Tok("Concatanation")
     /\ \A i \in {1, 3} : p_tokens[i].k = "Literal" /\ p_tokens[i].lt = "String") =>
        p_result = Some(POk(BinaryExpression(StringLiteral(p_tokens[1].str), "..",
                                             StringLiteral(p_tokens[3].str)),
                            <<>>))

-----------------------------------------------------------------------------
(* Properties of the lexer, checked under SpecLex *)

\* the text not yet consumed
Remaining == current \o input

SecondCharacter(c) == IF c = "." THEN "." ELSE "="

TwoCharacterToken(c) ==
    CASE c = "=" -> Tok("Equal")
      [] c = "<" -> Tok("LessThanOrEqual")
      [] c = ">" -> Tok("GreaterThanOrEqual")
      [] c = "~" -> Tok("NotEqual")
      [] c = "." -> Tok("Concatanation")

OneCharacterToken(c) ==
    CASE c = "=" -> Tok("Assigment")
      [] c = "<" -> Tok("LessThan")
      [] c = ">" -> Tok("GreaterThan")
      [] c = "." -> Tok("Dot")

\* C10: when the scanning loop is at = < > ~ or . and the next character
\* completes ==, <=, >=, ~= or .., the step appends exactly the two-character
\* token and consumes exactly those two characters; when it does not, a lone
\* = < > . appends Assigment, LessThan, GreaterThan, Dot and consumes exactly
\* one character.  The text after the operator is left to be scanned.
C10_TwoCharacterOperators ==
    [][(lex_pc = "loop" /\ current # None /\ current[1] \in {"=", "<", ">", "~", "."}) =>
        LET rem == Remaining
            c == rem[1]
        IN  IF Len(rem) >= 2 /\ rem[2] = SecondCharacter(c)
            THEN /\ tokens' = Append(tokens, TwoCharacterToken(c))
                 /\ Remaining' = SubSeq(rem, 3, Len(rem))
            ELSE c # "~" =>
                 /\ tokens' = Append(tokens, OneCharacterToken(c))
                 /\ Remaining' = SubSeq(rem, 2, Len(rem))
      ]_vars

\* the text  a>=1  has been scanned to Identifier(a), GreaterThanOrEqual, 1
C10_Witness ==
    /\ lex_pc = "done"
    /\ lex_result = Some(Ok(<<Identifier("a"), Tok("GreaterThanOrEqual"),
                              LiteralNumber(F64(1))>>))

\* C11: tokenize terminates on every input: every pass of the scanning loop
\* consumes at least one character of the finite input or returns an error,
\* and the pass that finds the input exhausted returns; the result is Ok with
\* the vector of every token pushed, returned only when the whole input has
\* been consumed, or an Err that carries a message and no tokens; nothing is
\* returned before the loop has ended.
C11_LexerTotality ==
    /\ [][(lex_pc = "loop" /\ current # None) =>
            \/ Len(Remaining') < Len(Remaining) /\ lex_result' = None
            \/ lex_result' # None /\ ~lex_result'[1].ok]_vars
    /\ [][(lex_pc = "loop" /\ current = None) =>
            lex_result' = Some(Ok(tokens)) /\ lex_pc' = "done"]_vars
    /\ [](lex_result # None =>
            /\ lex_pc = "done"
            /\ IF lex_result[1].ok
               THEN Remaining = <<>> /\ lex_result[1].val = tokens
               ELSE DOMAIN lex_result[1] = {"ok", "err"})
    /\ [](lex_pc # "done" => lex_result = None)

C11_Witness ==
    /\ lex_pc = "done"
    /\ Remaining = <<>>
    /\ lex_result = Some(Ok(<<Identifier("a"), Tok("Minus"), LiteralNumber(F64(1))>>))

-----------------------------------------------------------------------------
(* SpecFor: the numeric for loops that parse_for_loop builds from           *)
(*   for x = start, ending [, step] do body end                             *)
(* executed on the virtual machine of VirtualMachine::new.                  *)

NumberTokens(n) == <<LiteralNumber(F64(n))>>

ForStarts == {NumberTokens(n) : n \in 0..MaxNumber} \cup {<<LiteralBoolean(TRUE)>>}

ForEndings ==
    {NumberTokens(n) : n \in 0..(MaxNumber + 1)}
    \cup {<<LiteralBoolean(TRUE)>>, <<LiteralString(<<"a">>)>>, <<LiteralNil>>}

\* no step, a positive step, zero, 0 - 1, nil
ForSteps ==
    {<<>>}
    \cup {<<Tok("Comma")>> \o NumberTokens(n) : n \in 0..MaxNumber}
    \cup {<<Tok("Comma"), LiteralNumber(F64(0)), Tok("Minus"), LiteralNumber(F64(1))>>,
          <<Tok("Comma"), LiteralNil>>}

\* print(x), print(print) which fails, x = true which unsets the iterator
ForBodies ==
    {CallTokens("print", << <<Identifier("x")>> >>, <<>>),
     CallTokens("print", << <<Identifier("print")>> >>, <<>>),
     <<Identifier("x"), Tok("Assigment"), LiteralBoolean(TRUE)>>}

ForTokens(start, ending, step, body) ==
    <<Tok("For"), Identifier("x"), Tok("Assigment")>> \o start \o <<Tok("Comma")>>
    \o ending \o step \o <<Tok("Do")>> \o body \o <<Tok("End")>>

ForTokenVectors ==
    {ForTokens(start, ending, step, body) :
        start \in ForStarts, ending \in ForEndings, step \in ForSteps, body \in ForBodies}

\* the statements parse_single_statement returns for them
ForPrograms == {parse_single_statement(toks).val : toks \in ForTokenVectors}

VMExecuteForStatement == VMExecute(ForPrograms) /\ UNCHANGED <<lexVars, parserVars>>

NextFor ==
    \/ VMExecuteForStatement
    \/ ExecuteAssigmentStatement
    \/ ExecuteExpressionStatement
    \/ ExecuteBlockStatement
    \/ ForEnter
    \/ ForCondition
    \/ ForUpdate

SpecFor == InitVM /\ [][NextFor]_vars

-----------------------------------------------------------------------------
(* The claims about the numeric for loop, checked on SpecFor *)

\* the outermost statement in execution
Loop == activations[1].stmt

\* the body is print(iterator)
PrintsIterator ==
    Loop.code_block =
        <<ExpressionStatement(FunctionCall("print",
              <<IdentifierExpression(Loop.iterator_identifier)>>))>>

\* a for loop with a number start, a number end and a positive number step
\* whose body prints the iterator is in execution
CountedLoop ==
    /\ activations # <<>>
    /\ Loop.s = "ForLoop"
    /\ Loop.starting_value.e = "NumberLiteral"
    /\ Loop.ending_value.e = "NumberLiteral"
    /\ Loop.step_value.e = "NumberLiteral"
    /\ Loop.step_value.num.n > 0
    /\ PrintsIterator

RECURSIVE IterationValues(_, _, _)
\* a, a + s, a + 2s, ... while <= b
IterationValues(a, b, s) ==
    IF a > b THEN <<>> ELSE <<a>> \o IterationValues(a + s, b, s)

RECURSIVE Printed(_)
\* what print writes for each of the values in turn
Printed(values) ==
    IF values = <<>> THEN <<>>
    ELSE <<ToString(Head(values)) \o "\t", "\n">> \o Printed(Tail(values))

ExpectedValues ==
    IterationValues(Loop.starting_value.num.n, Loop.ending_value.num.n,
                    Loop.step_value.num.n)

IsPrefix(p, q) == Len(p) <= Len(q) /\ SubSeq(q, 1, Len(p)) = p

\* C12: a for loop with number start a, number end b and positive step s
\* (1 when omitted) runs its body once for each of a, a+s, a+2s, ... <= b,
\* in increasing order with the iterator bound to that value, no time when
\* a > b, and then completes without error with its frame popped.
C12_ForIteration ==
    /\ [](CountedLoop =>
            /\ IsPrefix(stdout, Printed(ExpectedValues))
            /\ (Len(activations) = 1 /\ Top.pc = "body" /\ Top.i = 1) =>
                  lookup_variable(scopes_stack, Loop.iterator_identifier) =
                     Some(Number(F64(ExpectedValues[Len(stdout) \div 2 + 1]))))
    /\ [][(CountedLoop /\ Len(activations) = 1 /\ Top.pc = "cond"
           /\ stdout = Printed(ExpectedValues)) => activations' = <<>>]_vars
    /\ [][(CountedLoop /\ activations' = <<>>) =>
            /\ vm_error' = None
            /\ stdout' = Printed(ExpectedValues)
            /\ Len(scopes_stack') = activations[1].depth]_vars
    /\ \A start \in ForStarts, ending \in ForEndings, body \in ForBodies :
          parse_single_statement(ForTokens(start, ending, <<>>, body)).val.step_value
             = NumberLiteral(F64(1))

\* for x = 1, 3 do print(x) end has completed
C12_Witness ==
    /\ activations = <<>>
    /\ vm_error = None
    /\ stdout = Printed(<<1, 2, 3>>)

\* C13: when the execution of a statement fails inside a for loop (a failing
\* body statement, a non-number step, a non-number iterator at update), the
\* frame the loop pushed is popped before the error is returned: the depth
\* of the scope stack after the failed Statement::execute is the depth
\* before it.
C13_ScopeReleaseOnError ==
    [][(activations # <<>> /\ vm_error' # None) =>
          Len(scopes_stack') = activations[1].depth]_vars

\* the iterator value v and the end value e the loop's test compares
TestedIterator == lookup_variable(scopes_stack, Top.stmt.iterator_identifier)[1]
TestedEnding == execute_expression(Top.stmt.ending_value, scopes_stack, stdout).val

\* C14: the continuation test of the for loop is the `<=` of the binary
\* operator: with iterator value v and end value e the loop runs another pass
\* exactly when v <= e evaluates to Boolean(true), stops when it evaluates to
\* Boolean(false), and fails with a diagnostic when v <= e fails, which it
\* does for every pairing other than Number with Number.
C14_ForTestIsBinaryLessEqual ==
    [][At("ForLoop", "cond") =>
          LET compared == binary_operation(TestedIterator, "<=", TestedEnding, stdout)
          IN  IF ~compared.ok THEN vm_error' # None
              ELSE IF compared.val.bool
              THEN vm_error' = None /\ activations' # <<>> /\ Top'.pc = "body"
              ELSE vm_error' = None /\ activations' = <<>>]_vars

\* a for loop with a number start, a number end and a step that evaluates
\* to zero or to a negative number, whose body prints the iterator, is in
\* execution
NonPositiveStepLoop ==
    /\ activations # <<>>
    /\ Loop.s = "ForLoop"
    /\ Loop.starting_value.e = "NumberLiteral"
    /\ Loop.ending_value.e = "NumberLiteral"
    /\ PrintsIterator
    /\ LET step_value == execute_expression(Loop.step_value, scopes_stack, stdout)
       IN  step_value.ok /\ step_value.val.t = "Number" /\ step_value.val.num.n <= 0

\* no step fails the loop or ends it
GoesOn == activations' # <<>> /\ vm_error' = None

\* C15, as stated: a for loop whose step evaluates to zero or to a negative
\* number is accepted without error and never ends, for every number start
\* and end.
C15_NonPositiveStepNeverEnds == [][NonPositiveStepLoop => GoesOn]_vars

\* C15, amended: a for loop whose step evaluates to zero or to a negative
\* number and whose start is not above its end is accepted without error and
\* never ends.  (With the start above the end the first test already fails
\* and the loop completes without a pass.)
C15_NonPositiveStepNeverEnds_FromBelow ==
    [][(NonPositiveStepLoop
        /\ f64_le(Loop.starting_value.num, Loop.ending_value.num)) => GoesOn]_vars

\* for x = 1, e, 0 - 1 do print(x) end, 1 <= e, is in its fourth pass
C15_Witness ==
    /\ NonPositiveStepLoop
    /\ f64_le(Loop.starting_value.num, Loop.ending_value.num)
    /\ stdout = Printed(<<1, 0, -1>>)
    /\ Top.pc = "body"

-----------------------------------------------------------------------------
(* The claim about the if chain, checked on SpecVM *)

\* the condition is true: its value is neither Nil nor Boolean(false)
ConditionHolds(condition) ==
    Truthy(execute_expression(condition, scopes_stack, stdout).val)

\* the elseifs of the if in execution whose conditions are true
TrueElseIfs ==
    {k \in 1..Len(Top.stmt.elseif_statements) :
        ConditionHolds(Top.stmt.elseif_statements[k][1])}

\* the block the chain of the if in execution selects, with the index of
\* the elseif reached: the main block, the block of the first true elseif,
\* the else block, or none
SelectedBlock ==
    IF ConditionHolds(Top.stmt.basic_condition) THEN <<"main", 1>>
    ELSE IF TrueElseIfs # {}
    THEN <<"elseif_block", CHOOSE k \in TrueElseIfs : \A m \in TrueElseIfs : k <= m>>
    ELSE IF Top.stmt.else_block # None
    THEN <<"else_block", Len(Top.stmt.elseif_statements) + 1>>
    ELSE <<"none", Len(Top.stmt.elseif_statements) + 1>>

IfBlockPcs == {"main", "elseif_block", "else_block"}

\* C16: an if statement runs at most one block: the main block when the
\* basic condition is true, otherwise the block of the first elseif whose
\* condition is true, with no later condition evaluated, otherwise the else
\* block if there is one; a block once entered is the only one run.
C16_IfChainSelection ==
    [][(Running /\ Top.stmt.s = "IfStatement" /\ vm_error' = None) =>
          /\ (Top.pc \in {"start", "elseif"} /\ Len(activations') = Len(activations)
              /\ Top'.pc \in IfBlockPcs) => <<Top'.pc, Top'.j>> = SelectedBlock
          /\ (Top.pc \in {"start", "elseif"} /\ Len(activations') < Len(activations))
                => SelectedBlock[1] = "none"
          /\ (Top.pc \in IfBlockPcs /\ Len(activations') = Len(activations))
                => Top'.pc = Top.pc]_vars

-----------------------------------------------------------------------------
(* SpecExpr: expression statements, calls and binary expressions over      *)
(* operands of every variant, executed on the virtual machine; x = 1       *)
(* binds x to a value that is no function.                                 *)

PrintOne == FunctionCall("print", <<One>>)
PrintTrue == FunctionCall("print", <<BooleanLiteral(TRUE)>>)

\* a value of each variant, two calls that write and return Nil, a call
\* that fails
Operands ==
    {One, StringLiteral(<<"a">>), BooleanLiteral(TRUE), NilLiteral,
     IdentifierExpression("print"), PrintOne, PrintTrue, FunctionCall("x", <<>>)}

\* the operator strings the parser produces, and ..
ExprOperators ==
    {OperatorString(kind) : kind \in BandOperators(1) \cup BandOperators(2)
                                       \cup BandOperators(3)} \cup {".."}

BinaryExpressions ==
    {BinaryExpression(lhs, operator, rhs) :
        lhs \in Operands, operator \in ExprOperators, rhs \in Operands}

\* print(print) fails inside print, x() fails at the lookup of x
CallArguments ==
    {One, PrintOne, PrintTrue, FunctionCall("print", <<IdentifierExpression("print")>>),
     FunctionCall("x", <<>>)}

CallExpressions ==
    {FunctionCall(name, args) :
        name \in {"print", "x"}, args \in SeqsUpTo(CallArguments, MaxArgs)}

ExprStatements ==
    {ExpressionStatement(e) : e \in BinaryExpressions \cup CallExpressions}
    \cup {AssigmentStatement("x", One)}

VMExecuteExprStatement == VMExecute(ExprStatements) /\ UNCHANGED <<lexVars, parserVars>>

NextExpr ==
    \/ VMExecuteExprStatement
    \/ ExecuteAssigmentStatement
    \/ ExecuteExpressionStatement

SpecExpr == InitVM /\ [][NextExpr]_vars

-----------------------------------------------------------------------------
(* The claims about calls and binary operators, checked on SpecExpr *)

\* a call is about to be executed as an expression statement
AtCall == At("ExpressionStatement", "start") /\ Top.stmt.expr.e = "FunctionCall"

\* the k-th argument of the call evaluated by itself
ArgumentResult(k) == execute_expression(Top.stmt.expr.args[k], scopes_stack, <<>>)

FailingArguments == {k \in 1..Len(Top.stmt.expr.args) : ~ArgumentResult(k).ok}

RECURSIVE OutputThrough(_)
\* what the arguments 1..k write, in this order
OutputThrough(k) ==
    IF k = 0 THEN <<>> ELSE OutputThrough(k - 1) \o ArgumentResult(k).out

ArgumentValues == [k \in 1..Len(Top.stmt.expr.args) |-> ArgumentResult(k).val]

\* C17: the arguments of a call are evaluated from left to right, with
\* what they write, before the callee is looked up; when argument i fails
\* the call fails with its error, no later argument is evaluated and the
\* callee is not invoked; when the name is unbound or bound to a value that
\* is no function the call then fails with "Function '<name>' not found";
\* otherwise the callee is invoked on the values in order.
C17_CallEvaluationOrder ==
    [][AtCall =>
          LET call == Top.stmt.expr
              callee == lookup_variable(scopes_stack, call.name)
          IN  IF FailingArguments # {}
              THEN LET first == CHOOSE k \in FailingArguments :
                                   \A m \in FailingArguments : k <= m
                   IN  /\ vm_error' = Some(ArgumentResult(first).err)
                       /\ stdout' = stdout \o OutputThrough(first)
              ELSE IF callee = None \/ callee[1].t # "NativeFunction"
              THEN /\ vm_error' = Some("Function '" \o call.name \o "' not found")
                   /\ stdout' = stdout \o OutputThrough(Len(call.args))
              ELSE LET invoked == print(ArgumentValues, <<>>)
                   IN  /\ stdout' = stdout \o OutputThrough(Len(call.args)) \o invoked.out
                       /\ vm_error' = IF invoked.ok THEN None ELSE Some(invoked.err)]_vars

\* x(print(1), print(true)) has failed at the lookup of x after both
\* arguments wrote
C17_Witness ==
    /\ vm_error = Some("Function 'x' not found")
    /\ stdout = <<"1\t", "\n", "true\t", "\n">>

\* a binary expression is about to be executed as an expression statement
AtBinary == At("ExpressionStatement", "start") /\ Top.stmt.expr.e = "BinaryExpression"

\* the pairings of operand variants and operators that have a value
Typed(lhs, operator, rhs) ==
    \/ /\ lhs.t = "Number" /\ rhs.t = "Number"
       /\ operator \in {"+", "-", "*", "/", "<", "<=", ">", ">=", "==", "~="}
    \/ /\ lhs.t = "String" /\ rhs.t = "String"
       /\ operator \in {"..", "==", "~="}
    \/ /\ lhs.t = "Boolean" /\ rhs.t = "Boolean"
       /\ operator \in {"==", "~="}

\* C18: a binary expression has a value only for (Number, Number) with
\* + - * / < <= > >= == ~=, (String, String) with .. == ~= and
\* (Boolean, Boolean) with == ~=; for every other pairing of operand variants
\* and operator it fails, and only after the left operand and then the right
\* operand have been evaluated; a failing operand ends the evaluation with
\* its own error.
C18_BinaryOperatorTyping ==
    [][AtBinary =>
          LET lhs == execute_expression(Top.stmt.expr.lhs, scopes_stack, <<>>)
              rhs == execute_expression(Top.stmt.expr.rhs, scopes_stack, <<>>)
          IN  IF ~lhs.ok
              THEN vm_error' = Some(lhs.err) /\ stdout' = stdout \o lhs.out
              ELSE IF ~rhs.ok
              THEN vm_error' = Some(rhs.err) /\ stdout' = stdout \o lhs.out \o rhs.out
              ELSE /\ stdout' = stdout \o lhs.out \o rhs.out
                   /\ vm_error' = None <=> Typed(lhs.val, Top.stmt.expr.op, rhs.val)]_vars

\* print(1) == print(true) has failed on its two Nil operands after the
\* left and then the right operand wrote
C18_Witness ==
    /\ vm_error = Some("Invalid expression")
    /\ stdout = <<"1\t", "\n", "true\t", "\n">>

-----------------------------------------------------------------------------
(* The claims about table literals and associativity, checked on SpecParse *)

\* C19: a table literal with n >= 0 elements separated by commas, with or
\* without a comma after the last, parses to a TableLiteral with exactly n
\* entries, the i-th element under the key i, and the cursor is left right
\* after the closing delimiter.
C19_TableLiteralKeys ==
    \A elements \in SeqsUpTo(ArgumentTokens, MaxArgs), trailing \in TrailingCommas,
       trailer \in CallTrailers :
        (p_called = "parse_expression"
         /\ p_tokens = TableTokens(elements, trailing, trailer)) =>
            p_result = Some(POk(
                TableLiteral([i \in 1..Len(elements) |->
                                <<NumberLiteral(F64(i)), ParsedArguments(elements)[i]>>]),
                trailer))

\* the token vector is a chain  e1 o1 e2 ... on en+1  of literals and
\* operators of one band, n >= 1
SameBandChain(toks) ==
    /\ Len(toks) >= 3
    /\ Len(toks) % 2 = 1
    /\ \A i \in 1..Len(toks) : i % 2 = 1 => toks[i] \in ChainOperands
    /\ \E level \in 1..3 :
          \A i \in 1..Len(toks) : i % 2 = 0 => toks[i].k \in BandOperators(level)

\* the expression of a literal token
LiteralExpression(token) ==
    IF token.lt = "Number" THEN NumberLiteral(token.num) ELSE StringLiteral(token.str)

RECURSIVE LeftNested(_)
\* Binary(... Binary(Binary(e1, o1, e2), o2, e3) ..., on, en+1)
LeftNested(toks) ==
    IF Len(toks) = 1 THEN LiteralExpression(toks[1])
    ELSE BinaryExpression(LeftNested(SubSeq(toks, 1, Len(toks) - 2)),
                          OperatorString(toks[Len(toks) - 1].k),
                          LiteralExpression(toks[Len(toks)]))

\* C20: a chain of operators of one precedence band parses to the
\* left-nested tree, whatever its length: a - b - c is
\* Binary(Binary(a, -, b), -, c), and likewise for chains of * and / and of
\* the comparison and equality operators.
C20_LeftAssociativity ==
    (p_called = "parse_expression" /\ SameBandChain(p_tokens)) =>
        p_result = Some(POk(LeftNested(p_tokens), <<>>))

\* 2 - 1 - 1 has been parsed to Binary(Binary(2, -, 1), -, 1)
C20_Witness ==
    /\ p_called = "parse_expression"
    /\ p_tokens = <<LiteralNumber(F64(2)), Tok("Minus"), LiteralNumber(F64(1)),
                    Tok("Minus"), LiteralNumber(F64(1))>>
    /\ p_result = Some(POk(BinaryExpression(
                               BinaryExpression(NumberLiteral(F64(2)), "-",
                                                NumberLiteral(F64(1))),
                               "-", NumberLiteral(F64(1))),
                           <<>>))

-----------------------------------------------------------------------------
(* The claims about comments and strings, checked on SpecLex *)

RECURSIVE FromNewline(_)
\* the text from its first newline on, the empty text when it has none
FromNewline(text) ==
    IF text = <<>> \/ Head(text) = "\n" THEN text ELSE FromNewline(Tail(text))

\* C21: when the scanning loop is at - and the next character is also -, the
\* step consumes the characters up to the next newline or the end of the
\* input and appends no token; a - that is not followed by - appends exactly
\* one Minus and consumes exactly that character.
C21_LineComments ==
    [][AtChar({"-"}) =>
          LET rem == Remaining
          IN  IF Len(rem) >= 2 /\ rem[2] = "-"
              THEN /\ tokens' = tokens
                   /\ lex_result' = None
                   /\ Remaining' \in {FromNewline(rem), Next1(FromNewline(rem))}
              ELSE /\ tokens' = Append(tokens, Tok("Minus"))
                   /\ Remaining' = Tail(rem)]_vars

RECURSIVE UpToQuote(_)
\* the characters of the text before its first "
UpToQuote(text) ==
    IF text = <<>> \/ Head(text) = "\"" THEN <<>>
    ELSE <<Head(text)>> \o UpToQuote(Tail(text))

HasQuote(text) == \E i \in 1..Len(text) : text[i] = "\""

\* C22: when the scanning loop is at an opening " and the input ends before
\* a closing " is found, tokenize returns an error and appends no token; a
\* string token is appended only when the closing " is present, and then
\* it holds the characters between the two and the text after the closing "
\* is left to be scanned.
C22_UnterminatedString ==
    [][AtChar({"\""}) =>
          LET body == Tail(Remaining)
          IN  IF HasQuote(body)
              THEN /\ tokens' = Append(tokens, LiteralString(UpToQuote(body)))
                   /\ lex_result' = None
                   /\ Remaining' = SubSeq(body, Len(UpToQuote(body)) + 2, Len(body))
              ELSE /\ tokens' = tokens
                   /\ lex_result' # None
                   /\ ~lex_result'[1].ok]_vars

-----------------------------------------------------------------------------
(* The claim about function declarations, checked on SpecParse *)

\* C23: for every n >= 0 the tokens  function f ( p1 , ... , pn ) block end
\* parse to the one function declaration of f with the parameter names
\* p1..pn in order and the block as body; in particular the declaration with
\* an empty parameter list parses.
C23_FunctionParameters ==
    \A parameters \in SeqsUpTo(ParameterNames, MaxArgs), body \in FunctionBlocks :
        (p_called = "parse" /\ p_tokens = FunctionTokens("f", parameters, body.toks)) =>
            p_result = Some(POk(<<FunctionDeclaration("f", parameters, body.block)>>, <<>>))

-----------------------------------------------------------------------------
(* SpecMain: main, main.rs:20-42, on a source text: the virtual machine is *)
(* created, Parser::parse tokenizes the whole text and parses the whole    *)
(* token vector, and only then are the statements executed in order.       *)
(* p_result holds the statements not yet executed; stdout is what the      *)
(* process has written.                                                    *)

\* print(1), x=1, a ~ the lexer rejects, a ) the parser rejects
SourceLines ==
    {<<"p", "r", "i", "n", "t", "(", "1", ")">>, <<"x", "=", "1">>, <<"~">>, <<")">>}

RECURSIVE JoinLines(_)
\* the lines, each ended by a newline
JoinLines(lines) ==
    IF lines = <<>> THEN <<>> ELSE Head(lines) \o <<"\n">> \o JoinLines(Tail(lines))

SourceTexts == {JoinLines(lines) : lines \in SeqsUpTo(SourceLines, MaxStatements)}

\* main.rs:25-28
InitMain ==
    /\ \E source_code \in SourceTexts : LexerNew(source_code)
    /\ tokens = <<>>
    /\ lex_result = None
    /\ lex_pc = "start"
    /\ ParserOff
    /\ VirtualMachineNew
    /\ activations = <<>>
    /\ stdout = <<>>
    /\ vm_error = None
    /\ ret = Void

\* Parser::parse, parser.rs:38-49, once tokenize has returned: its error is
\* passed on by `?`, its token vector is parsed to the end
MainParse ==
    /\ lex_pc = "done"
    /\ p_called = "none"
    /\ p_called' = "parse"
    /\ IF lex_result[1].ok
       THEN /\ p_tokens' = lex_result[1].val
            /\ p_result' = Some(parse(lex_result[1].val))
       ELSE /\ p_tokens' = <<>>
            /\ p_result' = Some(PErr(lex_result[1].err, <<>>))
    /\ UNCHANGED <<lexVars, vmVars>>

\* MainExecute with the first statement executed although parse failed
MainExecute_Eager ==
    /\ p_called = "parse"
    /\ p_tokens # <<>>
    /\ parse_single_statement(p_tokens).ok
    /\ activations = <<>>
    /\ vm_error = None
    /\ stdout = <<>>
    /\ activations' = <<Activation(parse_single_statement(p_tokens).val)>>
    /\ UNCHANGED <<scopes_stack, stdout, vm_error, ret, p_tokens, p_called, p_result,
                   lexVars>>

\* main.rs:40 and VirtualMachine::execute, vm.rs:76-82 : parse has
\* returned Ok(ast) and the next statement of ast begins
MainExecute ==
    /\ p_called = "parse"
    /\ p_result[1].ok
    /\ p_result[1].val # <<>>
    /\ activations = <<>>
    /\ vm_error = None
    /\ activations' = <<Activation(Head(p_result[1].val))>>
    /\ p_result' = Some(POk(Tail(p_result[1].val), p_result[1].rest))
    /\ UNCHANGED <<scopes_stack, stdout, vm_error, ret, p_tokens, p_called, lexVars>>

NextMain ==
    \/ TokenizeStart
    \/ LexSingle
    \/ LexAssign
    \/ LexTilde
    \/ LexWhitespace
    \/ LexNumber
    \/ LexIdentifier
    \/ TokenizeEnd
    \/ MainParse
    \/ MainExecute
    \/ ExecuteAssigmentStatement
    \/ ExecuteExpressionStatement

SpecMain == InitMain /\ [][NextMain]_vars

\* parse has not returned Ok: tokenize or the parser is still at work, or
\* one of them has failed
NotParsed == p_called # "parse" \/ ~p_result[1].ok

\* C24: the whole source is tokenized and parsed before the first statement
\* is executed: while the lexer or the parser is at work, and when either
\* has failed anywhere in the source, no statement has been executed, the
\* virtual machine is as created and nothing has been written, even when
\* statements precede the error.
C24_ParseBeforeExecute ==
    NotParsed =>
        /\ activations = <<>>
        /\ stdout = <<>>
        /\ VirtualMachineNew

\* print(1) followed by ) : the parser has failed at the ) and print(1)
\* has not run
C24_Witness ==
    /\ p_called = "parse"
    /\ p_tokens = <<Identifier("print"), Tok("LeftParen"), LiteralNumber(F64(1)),
                    Tok("RightParen"), Tok("RightParen")>>
    /\ ~p_result[1].ok
    /\ stdout = <<>>

====
